---- MODULE Spec2Model ----
(***************************************************************************)
(* A model of the xiaohongshu-auto-poster word-post pipeline:              *)
(*   - StructuredPostParser.parse / WordLearningParser._post_process       *)
(*   - render_xhs_word_post and the process-wide random generator          *)
(*   - ContentGenerator.get_words_for_level / pick_unused_word             *)
(*   - XiaohongshuAutoPoster.create_and_publish_post and the webhook       *)
(*   - DataRecorder.record_post / update_interactions                      *)
(*   - TriggerManager.start_scheduler, ImageGenerator.generate_word_image  *)
(*                                                                         *)
(* Strings are sequences of characters; a character is a one-element TLA+  *)
(* string.  The full-width brackets of the section markers are written     *)
(* "[" and "]", the Chinese characters of the markers by their pinyin      *)
(* ("biao", "ti", ...), one sequence element per character of the source.  *)
(* Fixed literals of the source that take no part in any search (the       *)
(* headers, footers, labels) are one element each, named in capitals.      *)
(***************************************************************************)
EXTENDS Integers, Sequences, FiniteSets, TLC

VARIABLES
    \* ---- parser (StructuredPostParser.parse) ----
    pieces,            \* how the input text was put together (ghost)
    text,              \* parse(text, word=word): the raw model output
    word,              \* the word keyword argument
    parsed_sections,   \* the local dict parsed_sections at line 52
    result,            \* what parse returned (or the exception it raised)
    stage,             \* "input" before the call, "parsed" after it
    \* ---- renderer and word picker (one process) ----
    rng,               \* the process-wide generator behind random.seed/choice
    calls,             \* per caller: the render_xhs_word_post call it runs
    word_files,        \* the word-list files on disk: path -> lines, or missing
    picked,            \* the last pick_unused_word call and how it ended
    \* ---- extract_tags / extract_meta applied on their own ----
    section_arg,       \* the section text passed to the extractor
    extracted,         \* what the extractor returned
    extract_pc,        \* "input" before the call, then "tags" or "meta"
    \* ---- XiaohongshuAutoPoster and the DataRecorder database ----
    recorder_on,       \* self.recorder is a DataRecorder (enable_recording)
    publish_mode,      \* self.publish_mode: "local" or "auto"
    clock,             \* the second CURRENT_TIMESTAMP shows
    posts,             \* the rows of table posts, in id order
    interactions,      \* the rows of table interactions, in id order
    db_call,           \* the last DataRecorder call: arguments and outcome
    returned,          \* the post ids record_post returned, in order
    run,               \* the create_and_publish_post call in progress
    other,             \* a second call in progress (another webhook request)
    \* ---- TriggerManager (scheduler mode) ----
    sched,             \* the scheduler: enabled, position, job runs, callbacks
    \* ---- ImageGenerator.generate_word_image ----
    img                \* the call in progress: arguments, position, outcome

parserVars == <<pieces, text, word, parsed_sections, result, stage>>

processVars == <<rng, calls, word_files, picked>>

extractVars == <<section_arg, extracted, extract_pc>>

\* The database of the DataRecorder and the record of its calls.
storeVars == <<posts, interactions, db_call, returned>>

posterVars == <<recorder_on, publish_mode, clock, storeVars, run, other>>


\* What a step of the parser, of the process, of an extractor, of the
\* poster leaves alone.
notParserVars == <<processVars, extractVars, posterVars, sched, img>>

notProcessVars == <<parserVars, extractVars, posterVars, sched, img>>

notExtractVars == <<parserVars, processVars, posterVars, sched, img>>

notPosterVars == <<parserVars, processVars, extractVars, sched, img>>

notTriggerVars == <<parserVars, processVars, extractVars, posterVars, img>>

notImageVars == <<parserVars, processVars, extractVars, posterVars, sched>>

vars == <<parserVars, processVars, extractVars, posterVars, sched, img>>

\* ------------------------------------------------------------------ bounds

\* Pieces of a freely assembled input text.
MaxPieces == 3

\* Outputs the generator may have produced since it was last seeded when a
\* word pick starts.
MaxPos == 3

\* Pieces of a freely assembled tag text.
MaxTagPieces == 4

\* Tags written one after the other in a long tag text.
MaxTags == 9

\* Lines of a meta text.
MaxMetaLines == 3

\* Rows of table posts written by direct record_post calls.
MaxPosts == 1

\* Seconds the clock advances.
MaxClock == 1

\* Rows of table posts when the DataRecorder is exercised on its own.
MaxRows == 2

\* Runs of the scheduled job.
MaxRuns == 3

\* ------------------------------------------------------------- str helpers

\* str.isspace() characters that occur in the model.
Whitespace == {" ", "\n"}

\* The set of the elements of a sequence.
Range(q) == {q[i] : i \in 1..Len(q)}

SetMin(S) == CHOOSE x \in S : \A y \in S : x <= y

SetMax(S) == CHOOSE x \in S : \A y \in S : x >= y

\* s[a:b] with 0 <= a, Python slice semantics (0-based, b exclusive, clipped).
Slice(s, a, b) ==
    LET hi == IF b > Len(s) THEN Len(s) ELSE b
    IN  IF a >= hi THEN <<>> ELSE SubSeq(s, a + 1, hi)

\* str.find(sub): lowest 0-based index where sub occurs, -1 when it does not.
Find(s, sub) ==
    LET hits == {i \in 0..(Len(s) - Len(sub)) : SubSeq(s, i + 1, i + Len(sub)) = sub}
    IN  IF hits = {} THEN -1 ELSE SetMin(hits)

\* str.strip(): drop leading and trailing whitespace.
Strip(s) ==
    LET keep == {i \in 1..Len(s) : s[i] \notin Whitespace}
    IN  IF keep = {} THEN <<>> ELSE SubSeq(s, SetMin(keep), SetMax(keep))

RECURSIVE Concat(_)
\* "".join(parts)
Concat(parts) ==
    IF parts = <<>> THEN <<>> ELSE Head(parts) \o Concat(Tail(parts))

RECURSIVE Join(_, _)
\* sep.join(parts)
Join(parts, sep) ==
    IF parts = <<>> THEN <<>>
    ELSE IF Len(parts) = 1 THEN Head(parts)
    ELSE Head(parts) \o sep \o Join(Tail(parts), sep)

\* Optional values: None, or a value.
None == [some |-> FALSE, val |-> <<>>]

Some(v) == [some |-> TRUE, val |-> v]

\* ------------------------------------------------------------------ parser

\* WordLearningParser.sections, in canonical order.
sections == <<"biaoti", "dancika", "peitujianyi", "zhengwen", "biaoqian", "meta">>

\* The characters of each marker string.
Mark(m) ==
    CASE m = "biaoti"      -> <<"[", "biao", "ti", "]">>
      [] m = "dancika"     -> <<"[", "dan", "ci", "ka", "]">>
      [] m = "peitujianyi" -> <<"[", "pei", "tu", "jian", "yi", "]">>
      [] m = "zhengwen"    -> <<"[", "zheng", "wen", "]">>
      [] m = "biaoqian"    -> <<"[", "biao", "qian", "]">>
      [] m = "meta"        -> <<"[", "m", "e", "t", "a", "]">>

Markers == {sections[i] : i \in 1..Len(sections)}

\* dict.get(key, default)
DictGet(d, key, default) == IF key \in DOMAIN d THEN d[key] ELSE default

\* Faulty variant: the `start == -1: continue` test is gone, every marker gets an entry.
MarkPresent_Always(t, mark) == TRUE

\* Line 34-36: the marker occurs in the text (find did not return -1).
MarkPresent(t, mark) == Find(t, Mark(mark)) # -1

\* Position of a marker in the canonical order (1-based index in sections).
CanonIdx(mark) == CHOOSE i \in 1..Len(sections) : sections[i] = mark

\* Faulty variant: only the markers after `mark` in canonical order are looked for
\* (for next_mark in self.sections[i + 1:]).
NextMarkLoop_LaterOnly(rest, mark, k, end) ==
    LET js == {Find(rest, Mark(sections[i])) :
                  i \in {n \in k..Len(sections) : n > CanonIdx(mark)}}
        lower == {j \in js : j # -1 /\ j < end}
    IN  IF lower = {} THEN end ELSE SetMin(lower)

\* Faulty variant: the `next_mark == mark: continue` test is gone, so a repetition of
\* the section's own marker ends the section too.
NextMarkLoop_NoSkip(rest, mark, k, end) ==
    LET js == {Find(rest, Mark(sections[i])) : i \in k..Len(sections)}
        lower == {j \in js : j # -1 /\ j < end}
    IN  IF lower = {} THEN end ELSE SetMin(lower)

RECURSIVE NextMarkLoop(_, _, _, _)
\* Lines 42-47: the loop over self.sections that lowers `end` to the position
\* of the nearest other marker in `rest`; k is the loop index.
NextMarkLoop(rest, mark, k, end) ==
    IF k > Len(sections) THEN end
    ELSE LET next_mark == sections[k]
             j == Find(rest, Mark(next_mark))
         IN  IF next_mark = mark
             THEN NextMarkLoop(rest, mark, k + 1, end)
             ELSE NextMarkLoop(rest, mark, k + 1,
                               IF j # -1 /\ j < end THEN j ELSE end)

\* Faulty variant: `start += len(mark)` is gone, the content starts at the marker.
SectionContent_FromMarker(t, mark) ==
    LET start == Find(t, Mark(mark))
        rest  == Slice(t, IF start < 0 THEN 0 ELSE start, Len(t))
        end   == NextMarkLoop(rest, mark, 1, Len(rest))
    IN  Strip(Slice(rest, 0, end))

\* Lines 34-49 for one marker that is present: the value stored for it.
SectionContent(t, mark) ==
    LET start == Find(t, Mark(mark)) + Len(Mark(mark))
        rest  == Slice(t, start, Len(t))
        end   == NextMarkLoop(rest, mark, 1, Len(rest))
    IN  Strip(Slice(rest, 0, end))

\* Lines 30-49: the dict parsed_sections after the loop.
ParseSections(t) ==
    [mark \in {m \in Markers : MarkPresent(t, m)} |-> SectionContent(t, mark)]

RECURSIVE FindTags_ToWhitespace(_, _)
\* Faulty variant: the pattern is #(\S+), a tag runs to the next whitespace
\* and may hold '#'.
FindTags_ToWhitespace(s, i) ==
    IF i > Len(s) THEN <<>>
    ELSE IF s[i] # "#" THEN FindTags_ToWhitespace(s, i + 1)
    ELSE LET stops == {j \in (i + 1)..Len(s) : s[j] \in Whitespace}
             stop  == IF stops = {} THEN Len(s) + 1 ELSE SetMin(stops)
         IN  IF stop = i + 1
             THEN FindTags_ToWhitespace(s, i + 1)
             ELSE <<SubSeq(s, i + 1, stop - 1)>> \o FindTags_ToWhitespace(s, stop)

RECURSIVE FindTags(_, _)
\* re.findall(r"#([^#\s]+)", s) scanning from 1-based position i.
FindTags(s, i) ==
    IF i > Len(s) THEN <<>>
    ELSE IF s[i] # "#" THEN FindTags(s, i + 1)
    ELSE LET stops == {j \in (i + 1)..Len(s) : s[j] = "#" \/ s[j] \in Whitespace}
             stop  == IF stops = {} THEN Len(s) + 1 ELSE SetMin(stops)
         IN  IF stop = i + 1
             THEN FindTags(s, i + 1)
             ELSE <<SubSeq(s, i + 1, stop - 1)>> \o FindTags(s, stop)

\* Faulty variant: the [:8] slice is gone, every tag found is returned.
extract_tags_NoCap(tags_section) == FindTags(tags_section, 1)

\* StructuredPostParser.extract_tags
extract_tags(tags_section) == Slice(FindTags(tags_section, 1), 0, 8)

RECURSIVE Split(_, _)
\* s.split(sep) for a one-character separator.
Split(s, sep) ==
    LET at == {i \in 1..Len(s) : s[i] = sep}
    IN  IF at = {} THEN <<s>>
        ELSE <<SubSeq(s, 1, SetMin(at) - 1)>>
             \o Split(SubSeq(s, SetMin(at) + 1, Len(s)), sep)

RECURSIVE MetaLoop_LastEq(_, _, _)
\* Faulty variant: the line is split at its last '=' (rsplit('=', 1)).
MetaLoop_LastEq(lines, k, meta) ==
    IF k > Len(lines) THEN meta
    ELSE LET line == Strip(lines[k])
             eqs  == {i \in 1..Len(line) : line[i] = "="}
         IN  IF eqs = {} THEN MetaLoop_LastEq(lines, k + 1, meta)
             ELSE LET key   == Strip(Slice(line, 0, SetMax(eqs) - 1))
                      value == Strip(Slice(line, SetMax(eqs), Len(line)))
                  IN  MetaLoop_LastEq(lines, k + 1,
                                      [x \in DOMAIN meta \cup {key} |->
                                          IF x = key THEN value ELSE meta[x]])

RECURSIVE MetaLoop(_, _, _)
\* Lines 96-100: the loop over the lines of the meta section.
MetaLoop(lines, k, meta) ==
    IF k > Len(lines) THEN meta
    ELSE LET line == Strip(lines[k])
             eq   == Find(line, <<"=">>)
         IN  IF eq = -1 THEN MetaLoop(lines, k + 1, meta)
             ELSE LET key   == Strip(Slice(line, 0, eq))
                      value == Strip(Slice(line, eq + 1, Len(line)))
                  IN  MetaLoop(lines, k + 1,
                               [x \in DOMAIN meta \cup {key} |->
                                   IF x = key THEN value ELSE meta[x]])

\* StructuredPostParser.extract_meta
extract_meta(meta_section) ==
    IF meta_section = <<>> THEN None
    ELSE LET meta == MetaLoop(Split(meta_section, "\n"), 1, <<>>)
         IN  IF DOMAIN meta = {} THEN None ELSE Some(meta)

\* f"📚 今天学单词：{word}"
TitleFallback(w) == <<"TITLE_FALLBACK">> \o w

\* The fixed fallback tag list of _post_process.
DefaultTags == <<<<"TAG_YINGYUXUEXI">>, <<"TAG_JIDANCI">>, <<"TAG_YINGYUCIHUI">>,
                 <<"TAG_XUEXIDAKA">>, <<"TAG_YINGYUGANHUO">>>>

\* render_xhs_word_content(word, card, body) of content_generator.py
render_xhs_word_content(w, card, body) ==
    LET p1 == <<<<"INTRO_PRE">> \o w \o <<"INTRO_POST", "\n">>>>
        p2 == IF card # <<>> THEN <<<<"CORE_LABEL", "\n">> \o Strip(card)>> ELSE <<>>
        p3 == IF body # <<>> THEN <<<<"USAGE_LABEL", "\n">> \o Strip(body)>> ELSE <<>>
        p4 == <<<<"OUTRO">>>>
    IN  Join(p1 \o p2 \o p3 \o p4, <<"\n", "\n">>)

\* What a call returns: a value, or the exception that left it.
Returned(v) == [raised |-> "none", value |-> v]

Raised(e) == [raised |-> e, value |-> <<>>]

\* Faulty variant: the `or` fallback of the title is gone, a blank title
\* section gives an empty title.
BuildRecord_RawTitle(title_raw, card, image, body, tags_raw, meta_raw, w) ==
    LET found == extract_tags(tags_raw)
        tags  == IF found = <<>> THEN DefaultTags ELSE found
    IN  Returned([word             |-> w,
                  title            |-> title_raw,
                  content          |-> render_xhs_word_content(w, card, body),
                  tags             |-> Slice(tags, 0, 8),
                  image_suggestion |-> IF image # <<>> THEN Some(image) ELSE None,
                  meta             |-> extract_meta(meta_raw)])

\* Faulty variant: the `if not tags` fallback is gone, no tag found gives an
\* empty tag list.
BuildRecord_NoDefaultTags(title_raw, card, image, body, tags_raw, meta_raw, w) ==
    LET title == IF title_raw # <<>> THEN title_raw ELSE TitleFallback(w)
    IN  Returned([word             |-> w,
                  title            |-> title,
                  content          |-> render_xhs_word_content(w, card, body),
                  tags             |-> Slice(extract_tags(tags_raw), 0, 8),
                  image_suggestion |-> IF image # <<>> THEN Some(image) ELSE None,
                  meta             |-> extract_meta(meta_raw)])

\* Lines 80-99 of _post_process: the record built from the six section texts.
BuildRecord(title_raw, card, image, body, tags_raw, meta_raw, w) ==
    LET title == IF title_raw # <<>> THEN title_raw ELSE TitleFallback(w)
        found == extract_tags(tags_raw)
        tags  == IF found = <<>> THEN DefaultTags ELSE found
    IN  Returned([word             |-> w,
                  title            |-> title,
                  content          |-> render_xhs_word_content(w, card, body),
                  tags             |-> Slice(tags, 0, 8),
                  image_suggestion |-> IF image # <<>> THEN Some(image) ELSE None,
                  meta             |-> extract_meta(meta_raw)])

\* Faulty variant: the sections are read with sections[mark], which raises KeyError
\* for a marker the text does not hold.
PostProcess_Subscript(secs, w) ==
    IF Markers \subseteq DOMAIN secs
    THEN BuildRecord(Strip(secs["biaoti"]), Strip(secs["dancika"]),
                     Strip(secs["peitujianyi"]), Strip(secs["zhengwen"]),
                     Strip(secs["biaoqian"]), Strip(secs["meta"]), w)
    ELSE Raised("KeyError")

\* WordLearningParser._post_process(sections, word): every section is read
\* with sections.get(mark, "").strip(), so an absent section never raises.
PostProcess(secs, w) ==
    BuildRecord(Strip(DictGet(secs, "biaoti", <<>>)),
                Strip(DictGet(secs, "dancika", <<>>)),
                Strip(DictGet(secs, "peitujianyi", <<>>)),
                Strip(DictGet(secs, "zhengwen", <<>>)),
                Strip(DictGet(secs, "biaoqian", <<>>)),
                Strip(DictGet(secs, "meta", <<>>)), w)

\* StructuredPostParser.parse(text, word=word), lines 30-52.
parse(t, w) == PostProcess(ParseSections(t), w)

\* ------------------------------------------------------- parser: the inputs

\* What a freely assembled text is made of: the six markers and three
\* stretches of content (plain, padded with whitespace, whitespace only).
FreePieces ==
    {Mark(m) : m \in Markers} \cup {<<"x">>, <<" ", "y", "\n">>, <<" ">>}

FreeInputs == UNION {[1..n -> FreePieces] : n \in 0..MaxPieces}

\* Content written after a marker of a canonical text: it holds no marker.
CanonContents == {<<"x">>, <<" ", "y", "\n">>, <<" ">>}

\* The six markers in canonical order, each followed by content.
CanonInputs ==
    {[i \in 1..12 |-> IF i % 2 = 1 THEN Mark(sections[(i + 1) \div 2])
                      ELSE c[i \div 2]] : c \in [1..6 -> CanonContents]}

\* The word argument: a word, and the empty string.
ParseWords == {<<"a">>, <<>>}

\* Tag texts written into a section: none, no tag, one tag, tags with and
\* without a blank between them, a tag twice, eight tags and nine tags.
RecordTagTexts ==
    {<<>>, <<" ">>, <<"x">>, <<"#">>, <<"#", " ", "x">>, <<"#", "a">>,
     <<" ", "#", "a", " ", "#", "b", "\n">>, <<"#", "a", "#", "b">>,
     <<"#", "a", " ", "#", "a">>,
     Concat([i \in 1..8 |-> <<"#", "t", " ">>]),
     Concat([i \in 1..9 |-> IF i % 2 = 1 THEN <<"#", "t", " ">> ELSE <<"#", "u">>])}

\* A tag text written after the tags marker, or after the title marker in a
\* text that has no tags marker.
TaggedInputs ==
    {<<Mark(m), t>> : m \in {"biaoqian", "biaoti"}, t \in RecordTagTexts}

ParserInit ==
    /\ pieces \in FreeInputs \cup CanonInputs \cup TaggedInputs
    /\ text = Concat(pieces)
    /\ word \in ParseWords
    /\ parsed_sections = <<>>
    /\ result = Raised("not called")
    /\ stage = "input"

\* A call parse(text, word=word) of ContentGenerator.parse_structured_word_post.
Parse ==
    /\ stage = "input"
    /\ parsed_sections' = ParseSections(text)
    /\ result' = parse(text, word)
    /\ stage' = "parsed"
    /\ UNCHANGED <<pieces, text, word, notParserVars>>

\* --------------------------------------------------------- parser: claims

\* The marker string sub occurs in t at 1-based position q.
OccursAt(t, sub, q) ==
    /\ q >= 1
    /\ q + Len(sub) - 1 <= Len(t)
    /\ SubSeq(t, q, q + Len(sub) - 1) = sub

\* For every marker, the 1-based positions in the text where it occurs.
Occurrences ==
    [m \in Markers |-> {q \in 1..Len(text) : OccursAt(text, Mark(m), q)}]

\* The markers that occur somewhere, given the occurrences occ.
Occurring(occ) == {m \in Markers : occ[m] # {}}

\* 1-based position of the first character after the first occurrence of m.
After(occ, m) == SetMin(occ[m]) + Len(Mark(m))

\* Positions at or after `from` where a marker of the set ms occurs.
MarkerPositions(occ, ms, from) ==
    {q \in UNION {occ[o] : o \in ms} : q >= from}

\* Where the section opened by m stops: the nearest occurrence of another
\* marker after the section's start, or one past the end of the text.
StopOf(occ, m) ==
    LET others == MarkerPositions(occ, Markers \ {m}, After(occ, m))
    IN  IF others = {} THEN Len(text) + 1 ELSE SetMin(others)

\* C2: every marker present maps to the text between its first occurrence and
\* the nearest occurrence of any other marker after it (or the end of the
\* text), trimmed, whatever the order of the markers in the text.
C2_SectionEndsAtNearestOtherMarker ==
    stage = "parsed" =>
        LET occ == Occurrences
        IN  \A m \in Occurring(occ) :
                /\ m \in DOMAIN parsed_sections
                /\ parsed_sections[m] =
                      Strip(SubSeq(text, After(occ, m), StopOf(occ, m) - 1))

\* C2 witness: a section with content is ended by a marker that comes earlier
\* in the canonical order.
C2_Witness ==
    /\ stage = "parsed"
    /\ LET occ == Occurrences
       IN  \E m \in Occurring(occ), o \in Markers :
              /\ CanonIdx(o) < CanonIdx(m)
              /\ StopOf(occ, m) \in occ[o]
              /\ parsed_sections[m] # <<>>

\* C3: the key set of the section mapping is exactly the set of markers that
\* occur in the text, and a marker followed only by whitespace maps to the
\* empty string.
C3_KeysAreOccurringMarkers ==
    stage = "parsed" =>
        LET occ == Occurrences
        IN  /\ DOMAIN parsed_sections = Occurring(occ)
            /\ \A m \in Occurring(occ) :
                  (\A q \in After(occ, m)..(StopOf(occ, m) - 1) :
                        text[q] \in Whitespace)
                      => parsed_sections[m] = <<>>

\* C3 witness: one marker is absent, another is followed by whitespace only.
C3_Witness ==
    /\ stage = "parsed"
    /\ LET occ == Occurrences
       IN  /\ Occurring(occ) # Markers
           /\ \E m \in Occurring(occ) :
                 /\ StopOf(occ, m) > After(occ, m)
                 /\ \A q \in After(occ, m)..(StopOf(occ, m) - 1) :
                       text[q] \in Whitespace
                 /\ parsed_sections[m] = <<>>

RecordKeys == {"word", "title", "content", "tags", "image_suggestion", "meta"}

\* C4: parse never raises and returns a record with the six keys; a section
\* the text does not hold is degraded to its default.
C4_ParseNeverRaises ==
    stage = "parsed" =>
        LET absent == Markers \ Occurring(Occurrences)
        IN  /\ result.raised = "none"
            /\ DOMAIN result.value = RecordKeys
            /\ result.value.word = word
            /\ "biaoti" \in absent => result.value.title = TitleFallback(word)
            /\ "peitujianyi" \in absent => result.value.image_suggestion = None
            /\ "biaoqian" \in absent => result.value.tags = DefaultTags
            /\ "meta" \in absent => result.value.meta = None

\* C4 witness: a text that holds content and no marker has been parsed.
C4_Witness ==
    /\ stage = "parsed"
    /\ Occurring(Occurrences) = {}
    /\ text # <<>>
    /\ result.raised = "none"

\* The input is the six markers in canonical order, each followed by content
\* that holds no marker.
IsCanonical ==
    /\ Len(pieces) = 12
    /\ \A i \in 1..6 :
          /\ pieces[2 * i - 1] = Mark(sections[i])
          /\ \A m \in Markers : Find(pieces[2 * i], Mark(m)) = -1

\* The content written after marker m of a canonical text.
Inserted(m) == pieces[2 * CanonIdx(m)]

\* C5 as stated: on a canonical text every section is the inserted content,
\* trimmed, and title and image_suggestion are the inserted contents.
C5_RoundTripAsStated ==
    (stage = "parsed" /\ IsCanonical) =>
        /\ DOMAIN parsed_sections = Markers
        /\ \A m \in Markers : parsed_sections[m] = Strip(Inserted(m))
        /\ result.value.title = Strip(Inserted("biaoti"))
        /\ result.value.image_suggestion = Some(Strip(Inserted("peitujianyi")))

\* C5 amended: every section is the inserted content, trimmed; title and
\* image_suggestion are the inserted contents when these are not blank, a
\* blank title gives the fallback title and a blank image suggestion None.
C5_RoundTrip ==
    (stage = "parsed" /\ IsCanonical) =>
        /\ DOMAIN parsed_sections = Markers
        /\ \A m \in Markers : parsed_sections[m] = Strip(Inserted(m))
        /\ result.value.title =
              IF Strip(Inserted("biaoti")) # <<>>
              THEN Strip(Inserted("biaoti")) ELSE TitleFallback(word)
        /\ result.value.image_suggestion =
              IF Strip(Inserted("peitujianyi")) # <<>>
              THEN Some(Strip(Inserted("peitujianyi"))) ELSE None

\* C5 witness: a canonical text with padded, non-blank title and image
\* suggestion has been parsed.
C5_Witness ==
    /\ stage = "parsed"
    /\ IsCanonical
    /\ Inserted("biaoti") = <<" ", "y", "\n">>
    /\ Inserted("peitujianyi") = <<"x">>
    /\ result.value.title = <<"y">>

\* q is a repeated (not the first) occurrence of marker m, it lies in the
\* text after the first occurrence of marker a, and between the start of a's
\* section and q no marker other than a occurs.
RepeatsIn(occ, a, m, q) ==
    /\ occ[a] # {}
    /\ q \in occ[m]
    /\ q > SetMin(occ[m])
    /\ q >= After(occ, a)
    /\ \A r \in MarkerPositions(occ, Markers \ {a}, After(occ, a)) : r >= q

\* C6 as stated: a repeated occurrence of a marker is part of the content of
\* the section before it, whichever marker opened that section.
C6_RepeatIsContentAsStated ==
    stage = "parsed" =>
        LET occ == Occurrences
        IN  \A a \in Markers, m \in Markers :
                \A q \in occ[m] :
                    RepeatsIn(occ, a, m, q)
                        => Find(parsed_sections[a], Mark(m)) # -1

\* C6 amended: a repeated occurrence of a marker is part of the content of
\* the section before it when that section was opened by the same marker; in
\* a section opened by another marker it ends the section like any marker.
C6_RepeatIsContentOfOwnSection ==
    stage = "parsed" =>
        LET occ == Occurrences
        IN  \A a \in Markers, m \in Markers :
                \A q \in occ[m] :
                    RepeatsIn(occ, a, m, q) =>
                        IF a = m
                        THEN /\ Find(parsed_sections[a], Mark(m)) # -1
                             /\ StopOf(occ, a) > q
                        ELSE parsed_sections[a] =
                                 Strip(SubSeq(text, After(occ, a), q - 1))

\* C6 witness: a marker is repeated inside its own section, with content
\* between the marker and its repetition.
C6_Witness ==
    /\ stage = "parsed"
    /\ LET occ == Occurrences
       IN  \E m \in Markers :
              \E q \in occ[m] :
                 /\ RepeatsIn(occ, m, m, q)
                 /\ q > After(occ, m)
                 /\ text[After(occ, m)] = "x"
                 /\ Len(parsed_sections[m]) >= (q - After(occ, m)) + Len(Mark(m))

\* -------------------------------------------------- the random generator

\* The generator's state: what it was last seeded with and how many 32-bit
\* outputs it has produced since.  A process that never called random.seed
\* starts from operating-system entropy: one of EntropySeeds.
EntropySeeds == {"entropy1", "entropy2"}

\* The top three bits of the successive 32-bit outputs of CPython's
\* generator after random.seed(int(seed, 16)) (entropy1, entropy2: after
\* random.seed(1), random.seed(2)).
MT_Stream(seed) ==
    CASE seed = "d41d8cd9" -> <<0, 3, 6, 5, 2, 7, 6, 0, 0, 5, 7, 7, 3, 7, 4, 7>>
      [] seed = "0cc175b9" -> <<4, 0, 1, 3, 4, 2, 1, 3, 0, 7, 4, 7, 2, 5, 1, 4>>
      [] seed = "92eb5ffe" -> <<1, 2, 7, 3, 6, 3, 6, 3, 0, 2, 5, 1, 3, 4, 0, 3>>
      [] seed = "4a8a08f0" -> <<7, 3, 2, 0, 7, 0, 5, 2, 3, 4, 0, 2, 2, 5, 4, 3>>
      [] seed = "c47d1870" -> <<1, 3, 4, 2, 4, 0, 1, 7, 4, 0, 6, 7, 4, 4, 3, 2>>
      [] seed = "entropy1" -> <<1, 4, 6, 6, 6, 0, 2, 0, 3, 6, 3, 3, 5, 3, 6, 1>>
      [] seed = "entropy2" -> <<7, 6, 7, 6, 0, 0, 0, 2, 6, 1, 5, 6, 5, 6, 2, 2>>

\* hashlib.md5(word.encode()).hexdigest()[:8]
Md5Hex8(w) ==
    CASE w = <<>>                   -> "d41d8cd9"
      [] w = <<"a">>                -> "0cc175b9"
      [] w = <<"b">>                -> "92eb5ffe"
      [] w = <<"c">>                -> "4a8a08f0"
      [] w = <<"w", "o", "r", "d">> -> "c47d1870"

\* Faulty variant: the call random.seed(seed) is gone.
RandomSeed_Skipped(g, a) == g

\* random.seed(a) on the generator g.
RandomSeed(g, a) == [seed |-> a, pos |-> 0]

\* int.bit_length() for the lengths that occur.
BitLength(n) == IF n = 1 THEN 1 ELSE IF n <= 3 THEN 2 ELSE 3

\* random.getrandbits(k), k <= 3: the top k bits of the next output.
GetRandBits(g, k) ==
    [r |-> MT_Stream(g.seed)[g.pos + 1] \div (2 ^ (3 - k)),
     g |-> [g EXCEPT !.pos = @ + 1]]

RECURSIVE Randbelow(_, _)
\* Random._randbelow(n): draw bit_length(n) bits until the value is below n.
Randbelow(g, n) ==
    LET d == GetRandBits(g, BitLength(n))
    IN  IF d.r < n THEN d ELSE Randbelow(d.g, n)

\* random.choice(seq) on the generator g: the element and the new state.
Choice(g, seq) ==
    LET d == Randbelow(g, Len(seq))
    IN  [r |-> seq[d.r + 1], g |-> d.g]

\* ------------------------------------------------------------- the renderer

DEFAULT_HEADERS == <<<<"HEADER_0">>, <<"HEADER_1">>>>

DEFAULT_FOOTERS == <<<<"FOOTER_0">>, <<"FOOTER_1">>>>

\* data.get(key) or default
GetOr(data, key, default) ==
    IF key \in DOMAIN data /\ data[key] # <<>> THEN data[key] ELSE default

\* Line 36: the word the seed is derived from.
SeedWord(data) == Strip(GetOr(data, "word", <<"w", "o", "r", "d">>))

\* "- " in front of every entry of a list.
Bulleted(items) == [i \in 1..Len(items) |-> <<"-", " ">> \o items[i]]

\* Faulty variant: the related-vocabulary label is written even when related is empty.
RelatedBlock_Always(data) ==
    <<<<"RELATED_LABEL">>>> \o Bulleted(GetOr(data, "related", <<>>)) \o <<<<>>>>

\* Lines 65-69: the related-vocabulary block.
RelatedBlock(data) ==
    IF GetOr(data, "related", <<>>) # <<>>
    THEN <<<<"RELATED_LABEL">>>> \o Bulleted(data["related"]) \o <<<<>>>>
    ELSE <<>>

\* Lines 42-72: the list `lines` (the record holds the key word).
BuildLines(data, header, footer) ==
    <<header, <<>>, data["word"], <<>>,
      GetOr(data, "definitions", <<>>), <<>>,
      GetOr(data, "memory_story", <<>>), <<>>,
      <<"EXAMPLES_LABEL">>>>
    \o Bulleted(GetOr(data, "examples", <<>>))
    \o <<<<>>>>
    \o RelatedBlock(data)
    \o <<footer>>

\* Lines 42-74: what the call returns once header and footer are chosen;
\* data["word"] at line 49 raises KeyError when the record has no word.
BuildText(data, header, footer) ==
    IF "word" \notin DOMAIN data
    THEN Raised("KeyError")
    ELSE Returned(Strip(Join(BuildLines(data, header, footer), <<"\n">>)))

\* render_xhs_word_post(data) run without interruption on generator g:
\* what it returns and the state it leaves the generator in.
render_xhs_word_post(g, data) ==
    LET seeded == RandomSeed(g, Md5Hex8(SeedWord(data)))
        h      == Choice(seeded, DEFAULT_HEADERS)
        f      == Choice(h.g, DEFAULT_FOOTERS)
    IN  [ret |-> BuildText(data, h.r, f.r), g |-> f.g]

\* The callers of render_xhs_word_post: in the sequential process three
\* calls one after the other, in the threaded process the worker threads.
Callers == {"c1", "c2", "c3"}

Threads == {"c1", "c2"}

\* <<t, u>>: the sequential process makes call t before call u.
CallerOrder == {<<"c1", "c2">>, <<"c1", "c3">>, <<"c2", "c3">>}

\* The records rendered.  A WordPost is a TypedDict with total=False: any
\* of its keys may be absent.
FullBody ==
    [definitions |-> <<"d">>, memory_story |-> <<"s">>,
     examples |-> <<<<"e", "1">>, <<"e", "2">>>>, related |-> <<<<"r", "1">>>>]

EmptyBody ==
    [definitions |-> <<>>, memory_story |-> <<>>, examples |-> <<>>, related |-> <<>>]

WithWord(w, body) ==
    [k \in DOMAIN body \cup {"word"} |-> IF k = "word" THEN w ELSE body[k]]

Posts ==
    {WithWord(w, FullBody) : w \in {<<"a">>, <<"b">>, <<"c">>, <<" ", "a">>, <<>>}}
    \cup {WithWord(<<"a">>, EmptyBody),
          WithWord(<<" ">>, EmptyBody),
          [word |-> <<"c">>],
          [word |-> <<"b">>, examples |-> <<<<"e", "1">>>>,
           related |-> <<<<"r", "1">>, <<"r", "2">>>>],
          [definitions |-> <<"d">>]}

IdleCall ==
    [pc |-> "idle", data |-> <<>>, header |-> <<>>, footer |-> <<>>,
     ret |-> Raised("not called"), rng0 |-> [seed |-> "none", pos |-> 0]]

\* No call is in progress: the process runs one operation at a time.
Quiet == \A t \in Callers : calls[t].pc \in {"idle", "done"}

\* The calls of the sequential process are made in the order c1, c2, c3:
\* t is the first caller that has not called yet.
InTurn(t) ==
    \A u \in Callers : (calls[u].pc = "idle") <=> (u = t \/ <<t, u>> \in CallerOrder)

\* render_xhs_word_post(d) is entered by caller t (rng0 remembers the
\* generator's state at that moment).
Call(t, d) ==
    /\ calls[t].pc = "idle"
    /\ calls' = [calls EXCEPT ![t] = [IdleCall EXCEPT !.pc = "line36",
                                                      !.data = d,
                                                      !.rng0 = rng]]
    /\ UNCHANGED <<rng, word_files, picked, notProcessVars>>

\* A call made by the sequential process, after the operation before it ended.
SeqCall(t, d) == Quiet /\ InTurn(t) /\ Call(t, d)

\* Lines 36-38: random.seed(seed) with the seed derived from the word.
Seed(t) ==
    /\ calls[t].pc = "line36"
    /\ rng' = RandomSeed(rng, Md5Hex8(SeedWord(calls[t].data)))
    /\ calls' = [calls EXCEPT ![t].pc = "line39"]
    /\ UNCHANGED <<word_files, picked, notProcessVars>>

\* Line 39: header = random.choice(DEFAULT_HEADERS)
ChooseHeader(t) ==
    /\ calls[t].pc = "line39"
    /\ LET c == Choice(rng, DEFAULT_HEADERS)
       IN  /\ rng' = c.g
           /\ calls' = [calls EXCEPT ![t].pc = "line40", ![t].header = c.r]
    /\ UNCHANGED <<word_files, picked, notProcessVars>>

\* Line 40: footer = random.choice(DEFAULT_FOOTERS)
ChooseFooter(t) ==
    /\ calls[t].pc = "line40"
    /\ LET c == Choice(rng, DEFAULT_FOOTERS)
       IN  /\ rng' = c.g
           /\ calls' = [calls EXCEPT ![t].pc = "line42", ![t].footer = c.r]
    /\ UNCHANGED <<word_files, picked, notProcessVars>>

\* Lines 42-74: the text is put together and returned.
Build(t) ==
    /\ calls[t].pc = "line42"
    /\ calls' = [calls EXCEPT
                    ![t].pc = "done",
                    ![t].ret = BuildText(calls[t].data, calls[t].header,
                                         calls[t].footer)]
    /\ UNCHANGED <<rng, word_files, picked, notProcessVars>>

\* ---------------------------------------------------------- the word picker

\* prompts.word_learning.PROMPT_VERSION
PROMPT_VERSION == "PROMPT_VERSION"

\* LEVEL_WORD_FILES (kaoyan: the level and the file named in Chinese).
LEVEL_WORD_FILES ==
    [l \in {"CET-4", "CET-6", "kaoyan", "CET4", "CET6"} |->
        CASE l \in {"CET-4", "CET4"} -> "data/CET4.txt"
          [] l \in {"CET-6", "CET6"} -> "data/CET6.txt"
          [] l = "kaoyan"            -> "data/kaoyan.txt"]

Paths == {LEVEL_WORD_FILES[l] : l \in DOMAIN LEVEL_WORD_FILES}

\* The level arguments tried: the configured ones and one that is not.
Levels == DOMAIN LEVEL_WORD_FILES \cup {"TOEFL"}

MissingFile == [exists |-> FALSE, lines |-> <<>>]

FileOf(lines) == [exists |-> TRUE, lines |-> lines]

\* Word lists: three words with padding and a blank line, one word, and a
\* file of blank lines.
ThreeWords == <<<<"a", "\n">>, <<" ", "b", " ", "\n">>, <<"\n">>, <<"c">>>>

OneWord == <<<<"a", "\n">>>>

BlankLines == <<<<"\n">>, <<" ", "\n">>>>

\* Faulty variant: a missing word-list file is read as an empty word list.
get_words_for_level_EmptyOnMissing(files, level) ==
    IF level \notin DOMAIN LEVEL_WORD_FILES
    THEN Raised("ValueError")
    ELSE IF ~files[LEVEL_WORD_FILES[level]].exists
    THEN Returned(<<>>)
    ELSE Returned(SelectSeq([i \in 1..Len(files[LEVEL_WORD_FILES[level]].lines) |->
                                Strip(files[LEVEL_WORD_FILES[level]].lines[i])],
                            LAMBDA w : w # <<>>))

\* What get_words_for_level returns or raises (lines 158-166).
get_words_for_level(files, level) ==
    IF level \notin DOMAIN LEVEL_WORD_FILES
    THEN Raised("ValueError")
    ELSE IF ~files[LEVEL_WORD_FILES[level]].exists
    THEN Raised("FileNotFoundError")
    ELSE Returned(SelectSeq([i \in 1..Len(files[LEVEL_WORD_FILES[level]].lines) |->
                                Strip(files[LEVEL_WORD_FILES[level]].lines[i])],
                            LAMBDA w : w # <<>>))

\* The has_posted argument: the triples it answers True for.
has_posted(hp, w, level, version) == <<w, level, version>> \in hp

\* Faulty variant: the `not` of the filter is gone, the posted words are kept.
Unused_Posted(words, level, hp) ==
    SelectSeq(words, LAMBDA w : has_posted(hp, Strip(w), level, PROMPT_VERSION))

\* Lines 187-190: the words has_posted answers False for.
Unused(words, level, hp) ==
    SelectSeq(words, LAMBDA w : ~has_posted(hp, Strip(w), level, PROMPT_VERSION))

\* Lines 158-162: the paths path.exists() is asked about, in order.
PathsProbed(level) ==
    IF level \in DOMAIN LEVEL_WORD_FILES THEN <<LEVEL_WORD_FILES[level]>> ELSE <<>>

\* Lines 187-190: the words has_posted is evaluated for, in order.
Asked(words) == [i \in 1..Len(words) |-> Strip(words[i])]

\* The record of one pick_unused_word call: its arguments, how it ended,
\* the paths it probed and the words it evaluated has_posted for.
NoPick ==
    [level |-> "none", hp |-> {}, raised |-> "not called", word |-> <<>>,
     err_level |-> "none", probed |-> <<>>, asked |-> <<>>]

\* Faulty variant: the word is drawn from the whole word list, not from the
\* words has_posted answered False for.
ChoicePool_AllWords(words, unused) == words

\* Line 193: the list random.choice draws from.
ChoicePool(words, unused) == unused

\* pick_unused_word(level, has_posted) on generator g: the outcome and the
\* state the generator is left in.
pick_unused_word(g, files, level, hp) ==
    LET words == get_words_for_level(files, level)
        out   == [NoPick EXCEPT !.level = level, !.hp = hp,
                                !.probed = PathsProbed(level)]
    IN  IF words.raised # "none"
        THEN [out |-> [out EXCEPT !.raised = words.raised], g |-> g]
        ELSE LET unused == Unused(words.value, level, hp)
                 seen   == [out EXCEPT !.asked = Asked(words.value)]
             IN  IF unused = <<>>
                 THEN [out |-> [seen EXCEPT !.raised = "AllWordsUsedError",
                                            !.err_level = level],
                       g   |-> g]
                 ELSE LET c == Choice(g, ChoicePool(words.value, unused))
                      IN  [out |-> [seen EXCEPT !.raised = "none",
                                                !.word = Strip(c.r)],
                           g   |-> c.g]

\* A call pick_unused_word(level, has_posted) between two other operations
\* of the process.
Pick(level, hp) ==
    /\ Quiet
    /\ rng.pos < MaxPos
    /\ LET p == pick_unused_word(rng, word_files, level, hp)
       IN  /\ picked' = p.out
           /\ rng' = p.g
    /\ UNCHANGED <<calls, word_files, notProcessVars>>

\* The predicates passed as has_posted: the sets of these triples.
PostedCandidates ==
    {<<w, "CET-4", PROMPT_VERSION>> : w \in {<<"a">>, <<"b">>, <<"c">>}}
    \cup {<<w, "CET-6", PROMPT_VERSION>> : w \in {<<"a">>, <<"b">>}}

\* -------------------------------------------------------- renderer: claims

\* The calls that have returned.
Done == {t \in Callers : calls[t].pc = "done"}

\* C1: two calls with the same record return the same text, and calls for
\* the same word choose the same header and footer, whatever state the
\* process-wide generator was in when the call was made.
C1_RenderDeterministic ==
    \A t \in Done, u \in Done :
        /\ calls[t].data = calls[u].data => calls[t].ret = calls[u].ret
        /\ SeedWord(calls[t].data) = SeedWord(calls[u].data)
              => /\ calls[t].header = calls[u].header
                 /\ calls[t].footer = calls[u].footer

\* C1 witness: the same record was rendered by the first and the third call,
\* from different generator states, with another word rendered and a word
\* picked in between.
C1_Witness ==
    /\ Done = Callers
    /\ calls["c1"].data = calls["c3"].data
    /\ calls["c1"].ret.raised = "none"
    /\ SeedWord(calls["c2"].data) # SeedWord(calls["c1"].data)
    /\ calls["c1"].rng0 # calls["c3"].rng0
    /\ calls["c3"].rng0.pos > 2
    /\ picked.raised = "none"

\* A field of the record, the empty string or list when it is absent.
FieldOrEmpty(d, k) == IF k \in DOMAIN d THEN d[k] ELSE <<>>

\* The record has a non-blank word and no field with an embedded newline.
PlainRecord(d) ==
    /\ "word" \in DOMAIN d
    /\ \E i \in 1..Len(d["word"]) : d["word"][i] \notin Whitespace
    /\ \A k \in DOMAIN d \cap {"word", "definitions", "memory_story"} :
          \A i \in 1..Len(d[k]) : d[k][i] # "\n"
    /\ \A k \in DOMAIN d \cap {"examples", "related"} :
          \A j \in 1..Len(d[k]) : \A i \in 1..Len(d[k][j]) : d[k][j][i] # "\n"

\* The lines of the post as the layout describes them.
LayoutLines(c) ==
    LET d   == c.data
        ex  == FieldOrEmpty(d, "examples")
        rel == FieldOrEmpty(d, "related")
    IN  <<c.header, <<>>, d["word"], <<>>, FieldOrEmpty(d, "definitions"), <<>>,
          FieldOrEmpty(d, "memory_story"), <<>>, <<"EXAMPLES_LABEL">>>>
        \o [i \in 1..Len(ex) |-> <<"-", " ">> \o ex[i]]
        \o <<<<>>>>
        \o (IF rel = <<>> THEN <<>>
            ELSE <<<<"RELATED_LABEL">>>>
                 \o [i \in 1..Len(rel) |-> <<"-", " ">> \o rel[i]]
                 \o <<<<>>>>)
        \o <<c.footer>>

\* C7: for a record with a non-blank word and no embedded newline, the lines
\* of the returned text are header, empty, word, empty, definitions, empty,
\* memory_story, empty, examples label, the examples, empty, the related
\* block if and only if related is not empty, footer.
C7_LineLayout ==
    \A t \in Done :
        PlainRecord(calls[t].data) =>
            /\ calls[t].ret.raised = "none"
            /\ calls[t].header \in {DEFAULT_HEADERS[i] : i \in 1..Len(DEFAULT_HEADERS)}
            /\ calls[t].footer \in {DEFAULT_FOOTERS[i] : i \in 1..Len(DEFAULT_FOOTERS)}
            /\ Split(calls[t].ret.value, "\n") = LayoutLines(calls[t])

\* C7 witness: a record with empty definitions, memory_story, examples and
\* related has been rendered, and one with examples and related entries.
C7_Witness ==
    /\ \E t \in Done :
          /\ calls[t].data = WithWord(<<"a">>, EmptyBody)
          /\ Len(Split(calls[t].ret.value, "\n")) = 11
    /\ \E t \in Done :
          /\ calls[t].data = WithWord(<<"b">>, FullBody)
          /\ Len(Split(calls[t].ret.value, "\n")) = 16

\* C8 as stated: a call of render_xhs_word_post leaves its record and the
\* process-wide generator as they were when it was entered.
C8_RenderLeavesGeneratorUnchanged ==
    [][\A t \in Callers :
          (calls[t].pc # "done" /\ calls'[t].pc = "done")
              => /\ calls'[t].data = calls[t].data
                 /\ rng' = calls[t].rng0]_vars

\* C9 as stated: whatever the interleaving, a thread's call returns what a
\* sequential call with the same record returns.
C9_ThreadsRenderAsSequential ==
    \A t \in Done :
        calls[t].ret = render_xhs_word_post(calls[t].rng0, calls[t].data).ret

\* C19 as stated: for every record of the WordPost type, whose keys are all
\* optional, render_xhs_word_post returns a string and never raises.
C19_RenderNeverRaises ==
    \A t \in Done : calls[t].ret.raised = "none"

\* ------------------------------------------------------ word picker: claims

\* The words of a word-list file: its lines, trimmed, blank lines dropped.
PoolOf(file) == {Strip(file.lines[i]) : i \in 1..Len(file.lines)} \ {<<>>}

\* C10: with a word pool for the level, pick_unused_word raises
\* AllWordsUsedError exactly when has_posted is true for every word of the
\* pool, and the error carries the level; it is not raised otherwise.
C10_AllWordsUsedIffAllPosted ==
    picked.raised # "not called" =>
        IF picked.level \in DOMAIN LEVEL_WORD_FILES
           /\ word_files[LEVEL_WORD_FILES[picked.level]].exists
        THEN LET pool == PoolOf(word_files[LEVEL_WORD_FILES[picked.level]])
                 all_posted ==
                     \A w \in pool :
                         <<w, picked.level, PROMPT_VERSION>> \in picked.hp
             IN  /\ (picked.raised = "AllWordsUsedError") <=> all_posted
                 /\ picked.raised = "AllWordsUsedError"
                       => picked.err_level = picked.level
        ELSE picked.raised # "AllWordsUsedError"

\* C10 witness: all three words of the CET-4 pool are posted and the pick
\* raised AllWordsUsedError carrying CET-4.
C10_Witness ==
    /\ picked.level = "CET-4"
    /\ Cardinality(PoolOf(word_files["data/CET4.txt"])) = 3
    /\ picked.raised = "AllWordsUsedError"
    /\ picked.err_level = "CET-4"

\* C11: a word pick_unused_word returns is a word of the level's pool that
\* has_posted(word, level, PROMPT_VERSION) answered False for, never a posted
\* one; when exactly one pool word is unposted, every call returns that word.
C11_PickedWordIsUnposted ==
    picked.raised = "none" =>
        LET pool     == PoolOf(word_files[LEVEL_WORD_FILES[picked.level]])
            unposted == {w \in pool :
                            <<w, picked.level, PROMPT_VERSION>> \notin picked.hp}
        IN  /\ picked.word \in pool
            /\ picked.word \in Range(picked.asked)
            /\ <<picked.word, picked.level, PROMPT_VERSION>> \notin picked.hp
            /\ Cardinality(unposted) = 1 => unposted = {picked.word}

\* C11 witness: of the three CET-4 words only c is unposted, and a call made
\* after earlier draws from the generator returned c.
C11_Witness ==
    /\ picked.level = "CET-4"
    /\ picked.raised = "none"
    /\ {<<w, "CET-4", PROMPT_VERSION>> : w \in {<<"a">>, <<"b">>}} \subseteq picked.hp
    /\ <<<<"c">>, "CET-4", PROMPT_VERSION>> \notin picked.hp
    /\ Len(picked.asked) = 3
    /\ picked.word = <<"c">>
    /\ rng.pos >= 2

\* C12: a level outside LEVEL_WORD_FILES ends the call with ValueError, a
\* missing word-list file with FileNotFoundError; in both cases has_posted
\* was evaluated for no word, the file was probed at most once and no word
\* is returned.
C12_ConfigurationErrorsFailFast ==
    picked.raised # "not called" =>
        /\ picked.level \notin DOMAIN LEVEL_WORD_FILES
              => picked.raised = "ValueError"
        /\ (/\ picked.level \in DOMAIN LEVEL_WORD_FILES
            /\ ~word_files[LEVEL_WORD_FILES[picked.level]].exists)
              => picked.raised = "FileNotFoundError"
        /\ picked.raised \in {"ValueError", "FileNotFoundError"}
              => /\ picked.asked = <<>>
                 /\ picked.word = <<>>
                 /\ Len(picked.probed) <= 1
                 /\ picked.err_level = "none"

\* C12 witness: after a successful CET-6 pick, a CET-4 pick with a has_posted
\* that knows posted words found the CET-4 file missing.
C12_Witness ==
    /\ picked.level = "CET-4"
    /\ ~word_files["data/CET4.txt"].exists
    /\ picked.raised = "FileNotFoundError"
    /\ picked.probed = <<"data/CET4.txt">>
    /\ picked.hp # {}
    /\ rng.pos > 0

\* ------------------------------------------------------------ the model call

\* prompts.word_learning.build_word_learning_prompt(word, level)
build_word_learning_prompt(w, level) == <<"PROMPT", w, level>>

\* What the chat endpoint does with one request: it answers with a
\* completion, cannot be reached, does not answer within the timeout,
\* answers with an error status, or answers with a body without choices.
OkReply(t) == [kind |-> "ok", text |-> t]

FailReply(k) == [kind |-> k, text |-> <<>>]

\* Lines 21-34 of generate_text for one request and the endpoint's reply:
\* requests.post raises ConnectionError or Timeout, raise_for_status raises
\* HTTPError, data["choices"] raises KeyError, otherwise the completion's
\* content is returned.
Exchange(reply) ==
    CASE reply.kind = "ok"          -> Returned(reply.text)
      [] reply.kind = "unreachable" -> Raised("ConnectionError")
      [] reply.kind = "timeout"     -> Raised("Timeout")
      [] reply.kind = "status"      -> Raised("HTTPError")
      [] reply.kind = "nochoices"   -> Raised("KeyError")

\* Faulty variant: a request that failed is sent a second time.
generate_text_Retry(prompt, replies) ==
    IF Exchange(replies[1]).raised = "none"
    THEN [ret |-> Exchange(replies[1]), requests |-> 1]
    ELSE [ret |-> Exchange(replies[2]), requests |-> 2]

\* llm_client.generate_text(prompt); replies are the endpoint's replies to
\* the successive requests.  What it returns or raises, and the number of
\* requests it sent.
generate_text(prompt, replies) ==
    [ret |-> Exchange(replies[1]), requests |-> 1]

\* ContentGenerator.generate_word_post(word, level)
generate_word_post(w, level, replies) ==
    generate_text(build_word_learning_prompt(w, level), replies)

\* ----------------------------------------------------------- the database

\* PROMPT_VERSION as the text stored in a row.
VersionText == <<PROMPT_VERSION>>

\* Faulty variant: the post row is written without its interactions row.
record_post_NoInteractions(ps, ins, now, w, level, v) ==
    [raised |-> "none", post_id |-> Len(ps) + 1,
     posts |-> Append(ps, [id |-> Len(ps) + 1, word |-> w, level |-> level,
                           prompt_version |-> v, created_at |-> now]),
     interactions |-> ins]

\* DataRecorder.record_post on the tables ps and ins at second now: the
\* INSERT into posts is refused by UNIQUE(word, level, prompt_version,
\* created_at) when a row with the same four values exists (a NULL level
\* never collides); otherwise the row and its interactions row are written
\* and committed together.  Ids are AUTOINCREMENT and no row is ever
\* deleted, so the new id is the number of rows plus one.
record_post(ps, ins, now, w, level, v) ==
    IF /\ level # "NULL"
       /\ \E i \in 1..Len(ps) :
             /\ ps[i].word = w
             /\ ps[i].level = level
             /\ ps[i].prompt_version = v
             /\ ps[i].created_at = now
    THEN [raised |-> "IntegrityError", post_id |-> 0, posts |-> ps,
          interactions |-> ins]
    ELSE [raised |-> "none", post_id |-> Len(ps) + 1,
          posts |-> Append(ps, [id |-> Len(ps) + 1, word |-> w, level |-> level,
                                prompt_version |-> v, created_at |-> now]),
          interactions |-> Append(ins, [post_id |-> Len(ps) + 1, likes |-> 0,
                                        favorites |-> 0, comments |-> 0,
                                        views |-> 0, updated_at |-> now])]

\* The counters of an interactions row.
Counters == {"likes", "favorites", "comments", "views"}

\* Faulty variant: every counter is written, a counter that was not given
\* as 0.
update_interactions_AllCounters(ins, now, post_id, given) ==
    LET hit == {i \in 1..Len(ins) : ins[i].post_id = post_id}
    IN  [ret |-> hit # {},
         interactions |->
             [i \in 1..Len(ins) |->
                 IF i \in hit
                 THEN [post_id |-> post_id,
                       likes |-> IF given.likes.some THEN given.likes.val ELSE 0,
                       favorites |-> IF given.favorites.some
                                     THEN given.favorites.val ELSE 0,
                       comments |-> IF given.comments.some
                                    THEN given.comments.val ELSE 0,
                       views |-> IF given.views.some THEN given.views.val ELSE 0,
                       updated_at |-> now]
                 ELSE ins[i]]]

\* DataRecorder.update_interactions(post_id, likes, favorites, comments,
\* views) on the table ins at second now; given holds the four keyword
\* arguments, None or a number.  Without any counter the call returns
\* False before it touches the database; otherwise the UPDATE sets the
\* given counters and updated_at in the rows WHERE post_id = ?, and the
\* call returns rowcount > 0.
update_interactions(ins, now, post_id, given) ==
    IF \A c \in Counters : ~given[c].some
    THEN [ret |-> FALSE, interactions |-> ins]
    ELSE LET hit == {i \in 1..Len(ins) : ins[i].post_id = post_id}
         IN  [ret |-> hit # {},
              interactions |->
                  [i \in 1..Len(ins) |->
                      IF i \in hit
                      THEN [post_id |-> post_id,
                            likes |-> IF given.likes.some
                                      THEN given.likes.val ELSE ins[i].likes,
                            favorites |-> IF given.favorites.some
                                          THEN given.favorites.val
                                          ELSE ins[i].favorites,
                            comments |-> IF given.comments.some
                                         THEN given.comments.val
                                         ELSE ins[i].comments,
                            views |-> IF given.views.some
                                      THEN given.views.val ELSE ins[i].views,
                            updated_at |-> now]
                      ELSE ins[i]]]

\* No counter given.
NoCounters ==
    [likes |-> None, favorites |-> None, comments |-> None, views |-> None]

\* The DataRecorder was not called yet.
NoCall ==
    [op |-> "none", post_id |-> 0, given |-> NoCounters, raised |-> "none",
     ret |-> FALSE]

\* The record of a record_post call that ended as rec.
RecordCall(rec) ==
    [op |-> "record_post", post_id |-> rec.post_id, given |-> NoCounters,
     raised |-> rec.raised, ret |-> rec.raised = "none"]

\* The post ids returned so far, after a record_post call that ended as rec.
ReturnedAfter(ids, rec) ==
    IF rec.raised = "none" THEN Append(ids, rec.post_id) ELSE ids

\* ------------------------------------------------------------- the poster

RECURSIVE ReplaceAll(_, _, _)
\* str.replace(old, new)
ReplaceAll(str, old, new) ==
    LET i == Find(str, old)
    IN  IF i = -1 THEN str
        ELSE Slice(str, 0, i) \o new
             \o ReplaceAll(Slice(str, i + Len(old), Len(str)), old, new)

\* " ".join([f"#{tag}#" for tag in tags])
TagLine(tags) ==
    Join([i \in 1..Len(tags) |-> <<"#">> \o tags[i] \o <<"#">>], <<" ">>)

\* XiaohongshuPublisher.format_content_for_xiaohongshu(content, tags)
format_content_for_xiaohongshu(content, tags) ==
    LET formatted == ReplaceAll(ReplaceAll(content, <<"\n", "\n">>, <<"\n">>),
                                <<"\n">>, <<"\n", "\n">>)
    IN  IF tags # <<>>
        THEN formatted \o <<"\n", "\n">> \o TagLine(tags)
        ELSE formatted

\* Line 45 of xiaohongshu-auto-poster/content_generator.py: the content of
\* the record is the word card and the body.
PosterContent(secs) ==
    LET card == Strip(DictGet(secs, "dancika", <<>>))
        body == Strip(DictGet(secs, "zhengwen", <<>>))
    IN  IF card # <<>> THEN Strip(card \o <<"\n", "\n">> \o body) ELSE body

\* parse_structured_word_post(text, word) as main.py imports it.
parse_structured_word_post(t, w) ==
    [parse(t, w).value EXCEPT !.content = PosterContent(ParseSections(t))]

\* The key "prompt" of the meta section.
PromptKey == <<"p", "r", "o", "m", "p", "t">>

\* Lines 67-68: the prompt version recorded with the post.  A record of the
\* older generator has no key meta, and content_data.get("meta", {}) is {}.
PromptVersionOf(content_data) ==
    IF "meta" \in DOMAIN content_data /\ content_data.meta.some
    THEN DictGet(content_data.meta.val, PromptKey, VersionText)
    ELSE VersionText

RECURSIVE FindHashPairs(_)
\* re.findall(r'#([^#]+)#', line)
FindHashPairs(s) ==
    LET i == Find(s, <<"#">>)
    IN  IF i = -1 THEN <<>>
        ELSE LET rest == Slice(s, i + 1, Len(s))
                 j    == Find(rest, <<"#">>)
             IN  IF j = -1 THEN <<>>
                 ELSE IF j = 0 THEN FindHashPairs(rest)
                 ELSE <<Slice(rest, 0, j)>>
                      \o FindHashPairs(Slice(rest, j + 1, Len(rest)))

\* ContentGenerator._parse_content(content, word): the first line is the
\* title, the other non-blank lines the body, the tags are the #...# pairs
\* of the body lines or the five default tags, at most 8.
parse_content(content, w) ==
    LET lines      == Split(Strip(content), "\n")
        stripped   == [i \in 1..(Len(lines) - 1) |-> Strip(lines[i + 1])]
        body_lines == SelectSeq(stripped, LAMBDA l : l # <<>>)
        found      == Concat([i \in 1..Len(body_lines) |->
                                 FindHashPairs(body_lines[i])])
        tags       == IF found = <<>> THEN DefaultTags ELSE found
    IN  [word      |-> w,
         title     |-> Strip(lines[1]),
         content   |-> Join(body_lines, <<"\n", "\n">>),
         tags      |-> Slice(tags, 0, 8),
         full_text |-> content]

\* ContentGenerator._get_random_word(theme): the word list of the level
\* named by the theme ("cet4" without a theme); file is that list on disk
\* and draw the number random.choice draws.
get_random_word(theme, file, draw) ==
    LET level == IF theme = "none" THEN "cet4" ELSE theme
        words == SelectSeq([i \in 1..Len(file.lines) |-> Strip(file.lines[i])],
                           LAMBDA l : l # <<>>)
    IN  IF level \notin {"cet4", "cet6"} THEN Raised("ValueError")
        ELSE IF ~file.exists THEN Raised("FileNotFoundError")
        ELSE IF words = <<>> THEN Raised("RuntimeError")
        ELSE Returned(words[(draw % Len(words)) + 1])

\* ContentGenerator._build_prompt(word, theme)
build_prompt(w, theme) == <<"LEGACY_PROMPT", w, theme>>

\* ContentGenerator.generate_word_content(word, theme) without an Anthropic
\* key: the word, the model call, the parsed record.  llm is the outcome of
\* generate_text when it was called.
generate_word_content(w, theme, file, draw, replies) ==
    LET chosen == IF w # <<>> THEN Returned(w)
                  ELSE get_random_word(theme, file, draw)
        g      == generate_text(build_prompt(chosen.value, theme), replies)
    IN  IF chosen.raised # "none"
        THEN [ret |-> chosen, llm |-> Raised("not called"), requests |-> 0]
        ELSE IF g.ret.raised # "none"
        THEN [ret |-> g.ret, llm |-> g.ret, requests |-> g.requests]
        ELSE [ret |-> Returned(parse_content(g.ret.value, chosen.value)),
              llm |-> g.ret, requests |-> g.requests]

\* _save_post_to_local, lines 192-197: what is written to the text file.
saved_text(title, content, tags) ==
    title \o <<"\n", "\n">> \o content
    \o (IF tags # <<>> THEN <<"\n", "\n">> \o TagLine(tags) ELSE <<>>)

\* _publish_via_api lines 58-61 and _publish_via_automation lines 149-152:
\* the content sent to the platform.
full_content(content, tags) ==
    IF tags # <<>> THEN content \o <<"\n", "\n">> \o TagLine(tags) ELSE content

\* Faulty variant: a post is recorded only when it was published.
ShouldRecord_PublishedOnly(recorder, success) == recorder /\ success

\* Line 117: `if self.recorder:` decides whether record_post is called; the
\* success flag of the publish result takes no part in it.
ShouldRecord(recorder, success) == recorder

\* Faulty variant: a record_post that raised makes the call report failure.
PostResult_FailOnRecordError(success, rec) ==
    [kind |-> "posted", success |-> success /\ rec.raised = "none",
     error |-> rec.raised,
     post_id |-> IF rec.raised = "none" THEN rec.post_id ELSE 0]

\* Lines 115-140: the returned dict; rec is how record_post ended ("not
\* called" without a recorder).  post_id 0 stands for None.
PostResult(success, rec) ==
    [kind |-> "posted", success |-> success, error |-> "none",
     post_id |-> IF rec.raised = "none" THEN rec.post_id ELSE 0]

\* record_post did not run, or the database refused to work.
NotRecorded(why, ps, ins) ==
    [raised |-> why, post_id |-> 0, posts |-> ps, interactions |-> ins]

NoResult == [kind |-> "none", success |-> FALSE, error |-> "none", post_id |-> 0]

\* One create_and_publish_post call: its arguments, its locals, and what it
\* called so far.
IdleRun ==
    [pc |-> "idle", theme |-> "none", word |-> <<>>, level |-> "none",
     word_for_post |-> <<>>, seen |-> <<>>, replies |-> <<>>,
     gen |-> Raised("not called"), llm_requests |-> 0, content_data |-> None,
     image_calls |-> 0, formatted |-> None, publish_calls |-> 0,
     save_calls |-> 0, published |-> None, final_text |-> None,
     record_calls |-> 0, record_raised |-> "not called",
     error |-> "none", result |-> NoResult]

\* create_and_publish_post(word=w, theme=theme, level=level) is entered.
StartPost(w, theme, level) ==
    /\ run.pc \in {"idle", "done"}
    /\ run' = [IdleRun EXCEPT !.pc = "line45", !.theme = theme, !.word = w,
                              !.level = level]
    /\ UNCHANGED <<recorder_on, publish_mode, clock, storeVars, other,
                   notPosterVars>>

\* Lines 45-57, theme "word": word_for_post and the deduplication test.
\* DataRecorder defines no method has_posted, so with a recorder the
\* attribute lookup self.recorder.has_posted raises AttributeError; without
\* one the `and` stops at self.recorder.
DedupCheck ==
    /\ run.pc = "line45"
    /\ run.theme = "word"
    /\ LET wfp == IF run.word # <<>> THEN run.word ELSE <<"abandon">>
       IN  run' = IF recorder_on
                  THEN [run EXCEPT !.pc = "line142", !.word_for_post = wfp,
                                   !.seen = posts, !.error = "AttributeError"]
                  ELSE [run EXCEPT !.pc = "line58", !.word_for_post = wfp,
                                   !.seen = posts]
    /\ UNCHANGED <<recorder_on, publish_mode, clock, storeVars, other,
                   notPosterVars>>

\* Line 58: text = generate_word_post(word_for_post, level=level).
GenerateWordPost(replies) ==
    /\ run.pc = "line58"
    /\ LET g == generate_word_post(run.word_for_post, run.level, replies)
       IN  run' = [run EXCEPT
                      !.replies = replies,
                      !.gen = g.ret,
                      !.llm_requests = @ + g.requests,
                      !.error = g.ret.raised,
                      !.pc = IF g.ret.raised = "none" THEN "line59" ELSE "line142"]
    /\ UNCHANGED <<recorder_on, publish_mode, clock, storeVars, other,
                   notPosterVars>>

\* Line 59: content_data = parse_structured_word_post(text, word_for_post).
ParseText ==
    /\ run.pc = "line59"
    /\ run' = [run EXCEPT
                  !.content_data =
                      Some(parse_structured_word_post(run.gen.value,
                                                      run.word_for_post)),
                  !.pc = "line72"]
    /\ UNCHANGED <<recorder_on, publish_mode, clock, storeVars, other,
                   notPosterVars>>

\* Line 61, any other theme: content_data = generate_word_content(word,
\* theme).
GenerateWordContent(file, draw, replies) ==
    /\ run.pc = "line45"
    /\ run.theme # "word"
    /\ LET g == generate_word_content(run.word, run.theme, file, draw, replies)
       IN  run' = IF g.ret.raised = "none"
                  THEN [run EXCEPT !.replies = replies,
                                   !.gen = g.llm,
                                   !.llm_requests = @ + g.requests,
                                   !.content_data = Some(g.ret.value),
                                   !.pc = "line72"]
                  ELSE [run EXCEPT !.replies = replies,
                                   !.gen = g.llm,
                                   !.llm_requests = @ + g.requests,
                                   !.error = g.ret.raised,
                                   !.pc = "line142"]
    /\ UNCHANGED <<recorder_on, publish_mode, clock, storeVars, other,
                   notPosterVars>>

\* Lines 72-80: generate_word_image writes the image and returns its path,
\* or raises (ok = FALSE).
GenerateImage(ok) ==
    /\ run.pc = "line72"
    /\ run' = [run EXCEPT !.image_calls = @ + 1,
                          !.error = IF ok THEN "none" ELSE "OSError",
                          !.pc = IF ok THEN "line85" ELSE "line142"]
    /\ UNCHANGED <<recorder_on, publish_mode, clock, storeVars, other,
                   notPosterVars>>

\* Lines 85-88: formatted_content.
FormatContent ==
    /\ run.pc = "line85"
    /\ run' = [run EXCEPT
                  !.formatted =
                      Some(format_content_for_xiaohongshu(
                               run.content_data.val.content,
                               run.content_data.val.tags)),
                  !.pc = "line92"]
    /\ UNCHANGED <<recorder_on, publish_mode, clock, storeVars, other,
                   notPosterVars>>

\* Lines 92-113: publish_post in mode auto (it reports success or failure),
\* _save_post_to_local otherwise (it reports success, or raises OSError
\* before anything is written).  final_text is the content sent to the
\* platform, or the text of the file.
Publish(success) ==
    /\ run.pc = "line92"
    /\ LET cd == run.content_data.val
       IN  run' = IF publish_mode = "auto"
                  THEN [run EXCEPT !.publish_calls = @ + 1,
                                   !.published = Some(success),
                                   !.final_text =
                                       Some(full_content(run.formatted.val,
                                                         cd.tags)),
                                   !.pc = "line116"]
                  ELSE IF success
                  THEN [run EXCEPT !.save_calls = @ + 1,
                                   !.published = Some(TRUE),
                                   !.final_text =
                                       Some(saved_text(cd.title,
                                                       run.formatted.val,
                                                       cd.tags)),
                                   !.pc = "line116"]
                  ELSE [run EXCEPT !.save_calls = @ + 1,
                                   !.error = "OSError",
                                   !.pc = "line142"]
    /\ UNCHANGED <<recorder_on, publish_mode, clock, storeVars, other,
                   notPosterVars>>

\* Lines 116-140: record_post when there is a recorder (an exception it
\* raises is printed and post_id stays None), then the result is returned.
\* The level is recorded for theme "word" only.  dbok: the database file
\* can be written (otherwise sqlite3 raises OperationalError).
RecordAndReturn(dbok) ==
    /\ run.pc = "line116"
    /\ LET cd  == run.content_data.val
           rec == IF dbok
                  THEN record_post(posts, interactions, clock, cd.word,
                                   IF run.theme = "word" THEN run.level
                                   ELSE "NULL",
                                   PromptVersionOf(cd))
                  ELSE NotRecorded("OperationalError", posts, interactions)
       IN  IF ShouldRecord(recorder_on, run.published.val)
           THEN /\ posts' = rec.posts
                /\ interactions' = rec.interactions
                /\ db_call' = RecordCall(rec)
                /\ returned' = ReturnedAfter(returned, rec)
                /\ run' = [run EXCEPT
                              !.record_calls = @ + 1,
                              !.record_raised = rec.raised,
                              !.pc = "done",
                              !.result = PostResult(run.published.val, rec)]
           ELSE /\ UNCHANGED storeVars
                /\ run' = [run EXCEPT
                              !.pc = "done",
                              !.result =
                                  PostResult(run.published.val,
                                             NotRecorded("not called", posts,
                                                         interactions))]
    /\ UNCHANGED <<recorder_on, publish_mode, clock, other, notPosterVars>>

\* Lines 142-148: the exception is turned into a result with success False.
ErrorReturn ==
    /\ run.pc = "line142"
    /\ run' = [run EXCEPT !.pc = "done",
                          !.result = [kind |-> "error", success |-> FALSE,
                                      error |-> run.error, post_id |-> 0]]
    /\ UNCHANGED <<recorder_on, publish_mode, clock, storeVars, other,
                   notPosterVars>>

\* DataRecorder.record_post called on the same database by another client.
RecordPost(w, level, v) ==
    /\ Len(posts) < MaxPosts
    /\ LET rec == record_post(posts, interactions, clock, w, level, v)
       IN  /\ posts' = rec.posts
           /\ interactions' = rec.interactions
           /\ db_call' = RecordCall(rec)
           /\ returned' = ReturnedAfter(returned, rec)
    /\ UNCHANGED <<recorder_on, publish_mode, clock, run, other, notPosterVars>>

\* A second passes.
Tick ==
    /\ clock < MaxClock
    /\ clock' = clock + 1
    /\ UNCHANGED <<recorder_on, publish_mode, storeVars, run, other,
                   notPosterVars>>

\* The texts the model answers with.
ModelTexts ==
    {Mark("biaoti") \o <<"t">> \o Mark("biaoqian") \o <<"#", "a">>,
     Mark("dancika") \o <<"c">> \o Mark("zhengwen") \o <<"b">>
         \o Mark("meta") \o PromptKey \o <<"=", "v", "0">>,
     <<"x">>}

Replies ==
    {OkReply(t) : t \in ModelTexts}
    \cup {FailReply(k) : k \in {"unreachable", "timeout", "status", "nochoices"}}

\* The replies to the two webhook requests.
WebhookReplies ==
    {OkReply(Mark("zhengwen") \o <<"b">> \o Mark("meta") \o PromptKey
                 \o <<"=", "v", "0">>),
     FailReply("timeout")}

\* The replies to a call of the older generator: a title line and a body
\* with a tag, a title line only, an empty text, and two failures.
CallReplies ==
    {OkReply(<<"t", "\n", "b", " ", "#", "a", "#">>), OkReply(<<" ", "t">>),
     OkReply(<<>>), FailReply("timeout"), FailReply("status")}

\* The word list data/cet4.txt: absent, blank, or two words.
WordLists ==
    {MissingFile, FileOf(<<<<" ">>>>), FileOf(<<<<"b">>, <<" ">>, <<"c">>>>)}

\* A webhook request arrives while no more than one call is in progress:
\* create_and_publish_post(word=w, theme=theme) is entered by a thread.
Request(w, theme) ==
    /\ run.pc = "idle"
    /\ run' = [IdleRun EXCEPT !.pc = "line45", !.theme = theme, !.word = w,
                              !.level = "CET-4"]
    /\ UNCHANGED <<recorder_on, publish_mode, clock, storeVars, other,
                   notPosterVars>>

\* The interpreter switches to the other thread.
Switch ==
    /\ run' = other
    /\ other' = run
    /\ UNCHANGED <<recorder_on, publish_mode, clock, storeVars, notPosterVars>>

\* ------------------------------------------- the extractors on their own

\* What a freely assembled tag text is made of.
TagPieces == {<<"#", "a">>, <<"#", "b", "c">>, <<"#">>, <<" ">>, <<"x">>, <<"\n">>}

FreeTagTexts == {Concat(f) : f \in UNION {[1..n -> TagPieces] : n \in 0..MaxTagPieces}}

\* Eight to MaxTags tags, each written right after the one before it or
\* after a blank.
LongTagTexts ==
    {Concat(f) : f \in UNION {[1..n -> {<<"#", "a">>, <<" ", "#", "b">>}] :
                                 n \in 8..MaxTags}}

\* The lines a meta text is made of.
MetaLinePieces ==
    {<<"k", "=", "v">>, <<" ", "k", " ", "=", " ", "v", "=", "w", " ">>,
     <<"j", "=">>, <<"=">>, <<"x">>, <<>>, <<"j", "=", "=", "v">>}

MetaTexts ==
    {Join(f, <<"\n">>) : f \in UNION {[1..n -> MetaLinePieces] : n \in 0..MaxMetaLines}}

ExtractInit ==
    /\ section_arg \in FreeTagTexts \cup LongTagTexts \cup MetaTexts
    /\ extracted = <<>>
    /\ extract_pc = "input"

\* A call extract_tags(section_arg).
ExtractTags ==
    /\ extract_pc = "input"
    /\ extracted' = extract_tags(section_arg)
    /\ extract_pc' = "tags"
    /\ UNCHANGED <<section_arg, notExtractVars>>

\* A call extract_meta(section_arg).
ExtractMeta ==
    /\ extract_pc = "input"
    /\ extracted' = extract_meta(section_arg)
    /\ extract_pc' = "meta"
    /\ UNCHANGED <<section_arg, notExtractVars>>

\* ------------------------------------------------------ extractors: claims

RECURSIVE Ascending(_)
\* The numbers of a set in ascending order.
Ascending(S) ==
    IF S = {} THEN <<>> ELSE <<SetMin(S)>> \o Ascending(S \ {SetMin(S)})

\* The characters that cannot be part of a tag.
TagStops == Whitespace \cup {"#"}

\* The positions of the '#' characters of s that open a tag: the character
\* after them is neither whitespace nor '#'.
TagStarts(s) ==
    {i \in 1..(Len(s) - 1) : s[i] = "#" /\ s[i + 1] \notin TagStops}

\* The characters after position i of s up to (not including) the next
\* character of the set stops, or up to the end of s.
RunAfter(s, i, stops) ==
    LET ends == {j \in (i + 1)..Len(s) : s[j] \in stops}
    IN  SubSeq(s, i + 1, IF ends = {} THEN Len(s) ELSE SetMin(ends) - 1)

\* The tags that occur in s, in the order they occur.
TagsOccurring(s) ==
    LET starts == Ascending(TagStarts(s))
    IN  [k \in 1..Len(starts) |-> RunAfter(s, starts[k], TagStops)]

\* C14: extract_tags returns at most 8 entries: the tags of the text in the
\* order they occur, a repeated tag as often as it is written, and exactly
\* the first 8 when more than 8 occur.
C14_TagsFirstEightInOrder ==
    extract_pc = "tags" =>
        LET all == TagsOccurring(section_arg)
        IN  /\ Len(extracted) <= 8
            /\ Len(extracted) = (IF Len(all) > 8 THEN 8 ELSE Len(all))
            /\ \A k \in 1..Len(extracted) : extracted[k] = all[k]

\* C14 witness: nine tags occur, the first eight hold a tag twice, and the
\* eight returned are not nine.
C14_Witness ==
    /\ extract_pc = "tags"
    /\ Len(TagsOccurring(section_arg)) = 9
    /\ Len(extracted) = 8
    /\ \E j \in 1..8, k \in 1..8 : j # k /\ extracted[j] = extracted[k]
    /\ \E j \in 1..7 : extracted[j] # extracted[j + 1]

\* C15 as stated: every returned tag is the full run of non-whitespace
\* characters after a '#', so '#a#b' is one tag.
C15_TagRunsToWhitespaceAsStated ==
    extract_pc = "tags" =>
        \A k \in 1..Len(extracted) :
            \E i \in 1..Len(section_arg) :
                /\ section_arg[i] = "#"
                /\ extracted[k] = RunAfter(section_arg, i, Whitespace)

\* C15 amended: every returned tag is the run of characters after a '#' up
\* to the next whitespace or the next '#', and it is not empty; '#a#b'
\* gives the two tags a and b.
C15_TagRunsToWhitespaceOrHash ==
    extract_pc = "tags" =>
        /\ \A k \in 1..Len(extracted) :
              /\ extracted[k] # <<>>
              /\ \A c \in Range(extracted[k]) : c \notin TagStops
              /\ \E i \in 1..Len(section_arg) :
                    /\ section_arg[i] = "#"
                    /\ extracted[k] = RunAfter(section_arg, i, TagStops)
        /\ section_arg = <<"#", "a", "#", "b", "c">>
              => extracted = << <<"a">>, <<"b", "c">> >>

\* C15 witness: the text '#a#bc' was split into the tags a and bc.
C15_Witness ==
    /\ extract_pc = "tags"
    /\ section_arg = <<"#", "a", "#", "b", "c">>
    /\ extracted = << <<"a">>, <<"b", "c">> >>

\* The line holds a '='.
HasEq(line) == \E i \in 1..Len(line) : line[i] = "="

\* The line before its first '=', trimmed.
KeyOf(line) ==
    Strip(SubSeq(line, 1, SetMin({i \in 1..Len(line) : line[i] = "="}) - 1))

\* The line after its first '=', trimmed: later '=' stay in it.
ValueOf(line) ==
    Strip(SubSeq(line, SetMin({i \in 1..Len(line) : line[i] = "="}) + 1, Len(line)))

\* C16: extract_meta returns None exactly when no line of the text holds a
\* '=', never an empty mapping; otherwise the keys of the mapping are the
\* trimmed texts before the first '=' of the lines that hold one, each
\* mapped to the trimmed text after that first '=' (of the last such line,
\* when several lines have the same key); other lines add nothing.
C16_MetaSplitsAtFirstEq ==
    extract_pc = "meta" =>
        LET lines == Split(section_arg, "\n")
            eqs   == {k \in 1..Len(lines) : HasEq(lines[k])}
        IN  /\ (extracted = None) <=> (eqs = {})
            /\ extracted # Some(<<>>)
            /\ eqs # {} =>
                  /\ extracted.some
                  /\ DOMAIN extracted.val = {KeyOf(lines[k]) : k \in eqs}
                  /\ \A k \in eqs :
                        (\A j \in eqs : j > k => KeyOf(lines[j]) # KeyOf(lines[k]))
                            => extracted.val[KeyOf(lines[k])] = ValueOf(lines[k])

\* C16 witness: a text with a line without '=', and a padded line with two
\* '=' whose second '=' stayed in the value.
C16_Witness ==
    /\ extract_pc = "meta"
    /\ LET lines == Split(section_arg, "\n")
       IN  /\ \E k \in 1..Len(lines) : lines[k] = <<"x">>
           /\ \E k \in 1..Len(lines) :
                 lines[k] = <<" ", "k", " ", "=", " ", "v", "=", "w", " ">>
    /\ extracted.some
    /\ DOMAIN extracted.val = {<<"k">>}
    /\ extracted.val[<<"k">>] = <<"v", "=", "w">>

\* ------------------------------------------------- the built record: claims

\* C17: the title of the built record is the trimmed title section when the
\* section is present and not blank, it is the fallback title holding the
\* word exactly when the section is absent or blank, and it is never empty.
C17_TitleOrFallback ==
    stage = "parsed" =>
        LET present == "biaoti" \in DOMAIN parsed_sections
            blank   == present /\ Strip(parsed_sections["biaoti"]) = <<>>
            title   == result.value.title
        IN  /\ result.raised = "none"
            /\ (present /\ ~blank) => title = Strip(parsed_sections["biaoti"])
            /\ (title = TitleFallback(word)) <=> (~present \/ blank)
            /\ title # <<>>
            /\ SubSeq(TitleFallback(word), 2, Len(TitleFallback(word))) = word

\* C17 witness: a text whose title marker is followed by whitespace only was
\* parsed for the word a, and the title is the fallback holding a.
C17_Witness ==
    /\ stage = "parsed"
    /\ word = <<"a">>
    /\ "biaoti" \in DOMAIN parsed_sections
    /\ Find(text, Mark("biaoti") \o <<" ">>) # -1
    /\ parsed_sections["biaoti"] = <<>>
    /\ result.value.title = <<"TITLE_FALLBACK", "a">>

\* C18: the tags of the built record are the five fallback tags exactly when
\* no tag occurs in the tags section (absent, blank or without a tag), they
\* are the extracted tags otherwise, and there are between 1 and 8 of them.
C18_TagsOrFallback ==
    stage = "parsed" =>
        LET found == TagsOccurring(DictGet(parsed_sections, "biaoqian", <<>>))
            tags  == result.value.tags
        IN  /\ result.raised = "none"
            /\ (tags = DefaultTags) <=> (found = <<>>)
            /\ found # <<>> =>
                  tags = SubSeq(found, 1, IF Len(found) > 8 THEN 8 ELSE Len(found))
            /\ Len(tags) >= 1
            /\ Len(tags) <= 8
            /\ Len(DefaultTags) = 5

\* C18 witness: a tags section with nine tags was parsed and the record
\* holds the first eight.
C18_Witness ==
    /\ stage = "parsed"
    /\ "biaoqian" \in DOMAIN parsed_sections
    /\ Len(TagsOccurring(parsed_sections["biaoqian"])) = 9
    /\ Len(result.value.tags) = 8
    /\ result.value.tags[2] = <<"u">>

\* ------------------------------------------------------- the poster: claims

\* has_posted(word, level, PROMPT_VERSION) as the deduplication is described:
\* table ps holds a row for the word, the level and PROMPT_VERSION.
Posted(ps, w, level) ==
    \E i \in 1..Len(ps) :
        /\ ps[i].word = w
        /\ ps[i].level = level
        /\ ps[i].prompt_version = VersionText

\* C13 as stated: with theme word and a recorder, a call whose word was
\* posted returns success and skipped without a model call, an image, a
\* publish or save, or a record_post; a call whose word was not posted goes
\* on to the model call.
C13_DedupBeforeGeneration ==
    (run.pc = "done" /\ run.theme = "word" /\ recorder_on) =>
        IF Posted(run.seen, run.word_for_post, run.level)
        THEN /\ run.result.kind = "skipped"
             /\ run.result.success
             /\ run.llm_requests = 0
             /\ run.image_calls = 0
             /\ run.publish_calls = 0
             /\ run.save_calls = 0
             /\ run.record_calls = 0
        ELSE run.llm_requests >= 1

\* The reply is a transport failure: the endpoint was not reached or did
\* not answer in time.
TransportFailure(reply) == reply.kind \in {"unreachable", "timeout"}

\* C20: a generate_word_post call sends exactly one request to the model;
\* when the request fails with a transport error, the call raises that
\* error: no second request, no text in its place, no parsed record, and
\* the caller ends with that error.
C20_ModelCallOnceAndPropagated ==
    run.gen.raised # "not called" =>
        /\ run.llm_requests = 1
        /\ run.replies[1].kind = "ok" => run.gen = Returned(run.replies[1].text)
        /\ TransportFailure(run.replies[1]) =>
              /\ run.gen.raised =
                    (IF run.replies[1].kind = "unreachable"
                     THEN "ConnectionError" ELSE "Timeout")
              /\ run.gen.value = <<>>
              /\ run.content_data = None
              /\ run.image_calls = 0
              /\ run.pc \in {"line142", "done"}
              /\ run.pc = "done" =>
                    /\ run.result.kind = "error"
                    /\ ~run.result.success
                    /\ run.result.error = run.gen.raised

\* C20 witness: the endpoint could not be reached for the first request and
\* would have answered a second one; the call ended with ConnectionError
\* after one request.
C20_Witness ==
    /\ run.pc = "done"
    /\ run.replies # <<>>
    /\ run.replies[1].kind = "unreachable"
    /\ run.replies[2].kind = "ok"
    /\ run.llm_requests = 1
    /\ run.gen = Raised("ConnectionError")
    /\ run.result.error = "ConnectionError"

\* --------------------------------------------------------- the scheduler

\* str.lower() on the values AUTO_POST_ENABLED takes here.
Lower(s) ==
    CASE s = "TRUE" -> "true"
      [] s = "True" -> "true"
      [] OTHER      -> s

\* TriggerManager.__init__, line 26:
\* os.getenv("AUTO_POST_ENABLED", "true").lower() == "true"; env "unset" is
\* a variable that is not set.
TriggerEnabled(env) == Lower(IF env = "unset" THEN "true" ELSE env) = "true"

\* Faulty variant: the callback's exception leaves _execute_callback and
\* with it run_pending and the loop of start_scheduler.
execute_callback_Propagate(outcome) ==
    [invoked |-> 1, propagated |-> outcome # "returned"]

\* TriggerManager._execute_callback, lines 49-56: the callback is called
\* once; an Exception it raises is printed and goes no further.
execute_callback(outcome) ==
    [invoked |-> 1, propagated |-> FALSE]

\* The TriggerManager before start_scheduler is called.  every is the
\* number of loop passes between two runs of the job (interval_hours in
\* minutes), wait the passes left until the job is due.
NewSched(env, every) ==
    [env |-> env, enabled |-> TriggerEnabled(env), every |-> every,
     pc |-> "init", wait |-> 0, due_runs |-> 0, invoked |-> 0,
     outcomes |-> <<>>]

\* The variable when no TriggerManager exists.
IdleSched == NewSched("false", 1)

\* start_scheduler lines 31-39: a disabled trigger returns; an enabled one
\* registers the job and enters the loop.
StartScheduler ==
    /\ sched.pc = "init"
    /\ sched' = IF ~sched.enabled
                THEN [sched EXCEPT !.pc = "returned"]
                ELSE [sched EXCEPT !.pc = "loop", !.wait = sched.every]
    /\ UNCHANGED notTriggerVars

\* Lines 45-47, a pass of the loop in which the job is not due:
\* run_pending does nothing, then time.sleep(60).
LoopIdle ==
    /\ sched.pc = "loop"
    /\ sched.wait > 0
    /\ sched' = [sched EXCEPT !.wait = @ - 1]
    /\ UNCHANGED notTriggerVars

\* Lines 45-47, a pass of the loop in which the job is due: run_pending
\* runs _execute_callback and schedules the next run; the loop goes on
\* unless an exception left _execute_callback.
LoopRun(outcome) ==
    /\ sched.pc = "loop"
    /\ sched.wait = 0
    /\ sched.due_runs < MaxRuns
    /\ LET e == execute_callback(outcome)
       IN  sched' = [sched EXCEPT
                        !.due_runs = @ + 1,
                        !.invoked = @ + e.invoked,
                        !.outcomes = Append(@, outcome),
                        !.wait = sched.every,
                        !.pc = IF e.propagated THEN "crashed" ELSE "loop"]
    /\ UNCHANGED notTriggerVars

\* A TriggerManager for every value of AUTO_POST_ENABLED and two intervals.
TriggerInit ==
    sched \in {NewSched(env, every) :
                  env \in {"unset", "true", "TRUE", "false", "0"},
                  every \in 1..2}

\* The callback returns, or raises an Exception.
TriggerNext ==
    \/ StartScheduler
    \/ LoopIdle
    \/ \E outcome \in {"returned", "raised"} : LoopRun(outcome)

\* ------------------------------------------------------ the image generator

\* The directory "generated_images/", the endings "_sd.png" and
\* "_template.png" and the default subtitle of line 118 are one element each.

\* Line 157: word.replace(" ", "_").strip() or "word"
SafeWord(w) ==
    LET s == Strip(ReplaceAll(w, <<" ">>, <<"_">>))
    IN  IF s # <<>> THEN s ELSE <<"w", "o", "r", "d">>

\* Lines 118-124: the subtitle is the meaning or the default, replaced by
\* the subtitle found in the content when there is one.  found is what
\* _extract_subtitle_and_example(content) returned, None without content.
SubtitleOf(meaning, found) ==
    LET base == IF meaning.some /\ meaning.val # <<>> THEN meaning.val
                ELSE <<"DEFAULT_SUBTITLE">>
    IN  IF found.some /\ found.val # <<>> THEN found.val ELSE base

\* _generate_sd_word_card, lines 139-161, for one reply of the service:
\* requests.post raises ConnectionError or Timeout, raise_for_status raises
\* HTTPError, an absent or empty image list raises ValueError, otherwise the
\* first image is written and its path returned.
generate_sd_word_card(w, reply) ==
    CASE reply = "image"       -> Returned(<<"generated_images/">> \o SafeWord(w) \o <<"_sd.png">>)
      [] reply = "unreachable" -> Raised("ConnectionError")
      [] reply = "timeout"     -> Raised("Timeout")
      [] reply = "status"      -> Raised("HTTPError")
      [] reply = "noimages"    -> Raised("ValueError")

\* What the service can answer.
SdReplies == {"image", "unreachable", "timeout", "status", "noimages"}

\* _generate_template_image, lines 204-206
generate_template_image(w, meaning) ==
    <<"generated_images/">> \o w \o <<"_template.png">>

\* Faulty variant: an exception of the service leaves the call.
generate_word_image_Propagate(use_sd, w, meaning, found, replies) ==
    IF use_sd
    THEN [ret |-> generate_sd_word_card(w, replies[1]), sd_requests |-> 1,
          template_calls |-> 0]
    ELSE [ret |-> Returned(generate_template_image(w, SubtitleOf(meaning, found))),
          sd_requests |-> 0, template_calls |-> 1]

\* ImageGenerator.generate_word_image, lines 116-133: with USE_SD_TXT2IMG
\* the service is asked once and its image returned; when that raised, or
\* without USE_SD_TXT2IMG, the template image is drawn.  replies are the
\* service's answers to successive requests.
generate_word_image(use_sd, w, meaning, found, replies) ==
    LET sd == generate_sd_word_card(w, replies[1])
    IN  IF use_sd /\ sd.raised = "none"
        THEN [ret |-> sd, sd_requests |-> 1, template_calls |-> 0]
        ELSE [ret |-> Returned(generate_template_image(
                                   w, SubtitleOf(meaning, found))),
              sd_requests |-> IF use_sd THEN 1 ELSE 0,
              template_calls |-> 1]

\* The variable when generate_word_image was not called.
IdleImg ==
    [pc |-> "idle", use_sd |-> FALSE, word |-> <<>>, meaning |-> None,
     found |-> None, replies |-> <<>>, ret |-> Raised("not called"),
     sd_requests |-> 0, template_calls |-> 0]

\* A call generate_word_image(word, meaning=..., content=...) about to be
\* made, in a process with or without USE_SD_TXT2IMG.
ImageInit ==
    img \in {[IdleImg EXCEPT !.pc = "input", !.use_sd = u, !.word = w,
                             !.meaning = m, !.found = f, !.replies = r] :
                u \in BOOLEAN, w \in {<<"a">>, <<"a", " ", "b">>, <<" ">>},
                m \in {None, Some(<<"m">>)}, f \in {None, Some(<<"s">>)},
                r \in [1..2 -> SdReplies]}

GenerateWordImage ==
    /\ img.pc = "input"
    /\ LET g == generate_word_image(img.use_sd, img.word, img.meaning,
                                    img.found, img.replies)
       IN  img' = [img EXCEPT !.pc = "done", !.ret = g.ret,
                              !.sd_requests = g.sd_requests,
                              !.template_calls = g.template_calls]
    /\ UNCHANGED notImageVars

\* ------------------------------------------- the DataRecorder on its own

\* The counter values passed to update_interactions: each counter has a
\* value of its own, or is not given.
CounterArgs ==
    {NoCounters,
     [NoCounters EXCEPT !.likes = Some(1)],
     [NoCounters EXCEPT !.favorites = Some(2), !.comments = Some(3)],
     [NoCounters EXCEPT !.views = Some(4)]}

\* DataRecorder.record_post called by a client of the database.
DbRecordPost(w, level, v) ==
    /\ Len(posts) < MaxRows
    /\ LET rec == record_post(posts, interactions, clock, w, level, v)
       IN  /\ posts' = rec.posts
           /\ interactions' = rec.interactions
           /\ db_call' = RecordCall(rec)
           /\ returned' = ReturnedAfter(returned, rec)
    /\ UNCHANGED <<recorder_on, publish_mode, clock, run, other, notPosterVars>>

\* DataRecorder.update_interactions(post_id, ...) called by a client.
DbUpdateInteractions(post_id, given) ==
    /\ LET upd == update_interactions(interactions, clock, post_id, given)
       IN  /\ interactions' = upd.interactions
           /\ db_call' = [op |-> "update_interactions", post_id |-> post_id,
                          given |-> given, raised |-> "none", ret |-> upd.ret]
    /\ UNCHANGED <<recorder_on, publish_mode, clock, posts, returned, run,
                   other, notPosterVars>>

RecorderNext ==
    \/ \E w \in {<<"a">>, <<"b">>}, level \in {"CET-4", "NULL"} :
          DbRecordPost(w, level, VersionText)
    \/ \E post_id \in 1..(MaxRows + 1), given \in CounterArgs :
          DbUpdateInteractions(post_id, given)

\* ------------------------------------------------- built record: body fields
\* The first paragraph of a text: the text up to its first blank line.
FirstParagraph(s) ==
    LET p == Find(s, <<"\n", "\n">>)
    IN  IF p = -1 THEN s ELSE Slice(s, 0, p)

\* C21: the record built from a text whose body section holds no
\* examples-boundary pattern has a memory_story equal to the first paragraph
\* of the body and empty examples and related lists.  (No text of the model
\* holds a boundary pattern: a text is made of markers, x, y, blanks and
\* newlines.)
C21_BodyFieldsExtracted ==
    stage = "parsed" =>
        LET body == Strip(DictGet(parsed_sections, "zhengwen", <<>>))
            rec  == result.value
        IN  /\ result.raised = "none"
            /\ {"memory_story", "examples", "related"} \subseteq DOMAIN rec
            /\ rec.memory_story = FirstParagraph(body)
            /\ rec.examples = <<>>
            /\ rec.related = <<>>

\* ----------------------------------------------------- poster: more claims
\* A row of ps was recorded for the word w and the level, under whatever
\* prompt version.
RecordedFor(ps, w, level) ==
    \E i \in 1..Len(ps) : ps[i].word = w /\ ps[i].level = level

C24_RecordedOncePerPublishResult ==
    recorder_on =>
        /\ run.record_calls <= 1
        /\ ~run.published.some => run.record_calls = 0
        /\ (run.published.some /\ run.pc = "done") =>
              /\ run.record_calls = 1
              /\ run.result.kind = "posted"
              /\ run.result.success = run.published.val
              /\ run.record_raised = "none" =>
                    \E i \in 1..Len(posts) :
                        /\ posts[i].id = run.result.post_id
                        /\ posts[i].word = run.content_data.val.word

\* C24 witness: in mode auto the publisher reported a failure, and the call
\* recorded the post and returned success False with the id of the row.
C24_Witness ==
    /\ recorder_on
    /\ publish_mode = "auto"
    /\ run.pc = "done"
    /\ run.published = Some(FALSE)
    /\ run.publish_calls = 1
    /\ run.record_calls = 1
    /\ ~run.result.success
    /\ run.result.post_id = 1
    /\ Len(posts) = 1
    /\ posts[1].word = <<"a">>

\* The steps of create_and_publish_post that raised in this call.
RaisedBeforeRecording == run.error # "none"

\* C25: create_and_publish_post returns a result in every case: when the
\* dedup check, the model call, the word pick, the image generation or the
\* save raised, the result has success False and names the error, and
\* record_post was not called; when record_post itself raised, the result
\* has the success value of the publish result and no post id.
C25_ExceptionsBecomeResults ==
    /\ run.pc \in {"idle", "line45", "line58", "line59", "line72", "line85",
                   "line92", "line116", "line142", "done"}
    /\ run.pc = "line142" => RaisedBeforeRecording
    /\ run.pc = "done" =>
          /\ RaisedBeforeRecording =>
                /\ run.result.kind = "error"
                /\ ~run.result.success
                /\ run.result.error = run.error
                /\ run.record_calls = 0
                /\ posts = <<>>
          /\ ~RaisedBeforeRecording =>
                /\ run.result.kind = "posted"
                /\ run.result.success = run.published.val
          /\ run.record_raised \notin {"none", "not called"} =>
                /\ run.record_calls = 1
                /\ run.result.kind = "posted"
                /\ run.result.success = run.published.val
                /\ run.result.error = "none"
                /\ run.result.post_id = 0
                /\ posts = <<>>

\* C25 witness: the post was saved, record_post raised OperationalError, and
\* the call returned success True without a post id.
C25_Witness ==
    /\ recorder_on
    /\ run.pc = "done"
    /\ run.save_calls = 1
    /\ run.published = Some(TRUE)
    /\ run.record_calls = 1
    /\ run.record_raised = "OperationalError"
    /\ run.result.success
    /\ run.result.post_id = 0

\* The number of places of the text t where sub occurs.
Count(t, sub) == Cardinality({q \in 1..Len(t) : OccursAt(t, sub, q)})

\* C28 as stated: the text saved or sent for a post with tags is the
\* formatted content (after the title, in a saved file) with nothing
\* appended to it: the tag line occurs in it once more than in the content
\* of the record, at the end.
C28_TagLineOnce ==
    (run.final_text.some /\ run.content_data.val.tags # <<>>) =>
        LET cd     == run.content_data.val
            line   == TagLine(cd.tags)
            prefix == IF publish_mode = "auto" THEN <<>>
                      ELSE cd.title \o <<"\n", "\n">>
        IN  /\ run.final_text.val = prefix \o run.formatted.val
            /\ Count(run.final_text.val, line) = Count(cd.content, line) + 1

\* ------------------------------------------------------------------ C26
\* The interactions rows that refer to the post id.
RowsOf(ins, id) == {i \in 1..Len(ins) : ins[i].post_id = id}

\* C26: after any sequence of record_post and update_interactions calls
\* every row of posts has exactly one interactions row referring to it and
\* every interactions row refers to an existing post; right after a
\* record_post that returned, the interactions row of the returned id has
\* likes, favorites, comments and views all 0; and the ids record_post
\* returned are pairwise distinct, the last of them the id just returned.
C26_PostsAndInteractionsPaired ==
    /\ \A p \in 1..Len(posts) :
          Cardinality(RowsOf(interactions, posts[p].id)) = 1
    /\ \A i \in 1..Len(interactions) :
          \E p \in 1..Len(posts) : posts[p].id = interactions[i].post_id
    /\ (db_call.op = "record_post" /\ db_call.ret) =>
          /\ returned # << >>
          /\ returned[Len(returned)] = db_call.post_id
          /\ \A i \in RowsOf(interactions, db_call.post_id) :
                \A c \in Counters : interactions[i][c] = 0
    /\ \A i, j \in 1..Len(returned) : i # j => returned[i] # returned[j]

\* Two posts were recorded, the second after the counters of the first had
\* been updated.
C26_Witness ==
    /\ Len(posts) = 2
    /\ db_call.op = "record_post"
    /\ db_call.ret
    /\ db_call.post_id = 2
    /\ returned = <<1, 2>>
    /\ \E i \in RowsOf(interactions, 1) : interactions[i].likes = 1

\* ------------------------------------------------------------------ C27
\* The step is a call of update_interactions.
IsUpdateStep ==
    /\ db_call'.op = "update_interactions"
    /\ db_call' # db_call \/ interactions' # interactions

\* C27: update_interactions(post_id, ...) changes only the counters given
\* as non-None in the interactions rows of post_id and leaves every other
\* counter of those rows, every other row and the posts table unchanged; it
\* returns True exactly when at least one counter was given and a row for
\* post_id exists, and when it returns False the tables are unchanged.
C27_UpdateChangesOnlyGivenCounters ==
    [][IsUpdateStep =>
         LET c == db_call'
         IN  /\ posts' = posts
             /\ returned' = returned
             /\ Len(interactions') = Len(interactions)
             /\ \A i \in 1..Len(interactions) :
                   /\ interactions'[i].post_id = interactions[i].post_id
                   /\ interactions[i].post_id # c.post_id =>
                         interactions'[i] = interactions[i]
                   /\ interactions[i].post_id = c.post_id =>
                         \A k \in Counters :
                            interactions'[i][k] =
                               IF c.given[k].some THEN c.given[k].val
                               ELSE interactions[i][k]
             /\ c.ret <=> /\ \E k \in Counters : c.given[k].some
                          /\ RowsOf(interactions, c.post_id) # {}
             /\ ~c.ret => interactions' = interactions]_vars

\* favorites and comments of post 2 were updated after likes of post 1:
\* the other counters of post 2 and the row of post 1 are as they were.
C27_Witness ==
    /\ db_call.op = "update_interactions"
    /\ db_call.ret
    /\ db_call.post_id = 2
    /\ db_call.given.favorites = Some(2)
    /\ db_call.given.likes = None
    /\ \E i \in RowsOf(interactions, 2) :
          /\ interactions[i].favorites = 2
          /\ interactions[i].comments = 3
          /\ interactions[i].likes = 0
          /\ interactions[i].views = 0
    /\ \E i \in RowsOf(interactions, 1) : interactions[i].likes = 1

\* ------------------------------------------------------------------ C29
\* C29: an exception raised by the callback during a scheduled run never
\* ends the scheduler loop: an enabled scheduler that was started is in its
\* loop whatever the callbacks did, and every due run, those after a run
\* that raised included, invoked the callback once; a disabled trigger
\* returns from start_scheduler and never invokes the callback.
C29_SchedulerSurvivesCallbackErrors ==
    /\ sched.pc # "crashed"
    /\ (sched.enabled /\ sched.pc # "init") => sched.pc = "loop"
    /\ sched.invoked = sched.due_runs
    /\ sched.due_runs = Len(sched.outcomes)
    /\ ~sched.enabled =>
          /\ sched.pc \in {"init", "returned"}
          /\ sched.invoked = 0
          /\ sched.outcomes = << >>

\* The callback raised in the first due run and was invoked again in the
\* second, and the loop goes on.
C29_Witness ==
    /\ sched.enabled
    /\ sched.outcomes = <<"raised", "returned">>
    /\ sched.invoked = 2
    /\ sched.pc = "loop"

\* ------------------------------------------------------------------ C30
\* The path _generate_template_image returns for the call's word.
TemplatePath ==
    Returned(generate_template_image(img.word,
                                     SubtitleOf(img.meaning, img.found)))

\* C30: generate_word_image prefers the text-to-image service and falls
\* back to the template: with text-to-image enabled, a successful request
\* gives the service's image and a request that failed in any way
\* (transport error, HTTP error, empty image list) is not propagated, the
\* call returning the path of the template image; the template path is
\* also returned when text-to-image is disabled, without any request; and
\* the service is asked at most once per call.
C30_ServiceFirstThenTemplate ==
    img.pc = "done" =>
       /\ img.ret.raised = "none"
       /\ img.sd_requests <= 1
       /\ img.sd_requests = 1 <=> img.use_sd
       /\ (img.use_sd /\ img.replies[1] = "image") =>
             /\ img.ret = generate_sd_word_card(img.word, "image")
             /\ img.template_calls = 0
       /\ (img.use_sd /\ img.replies[1] # "image") =>
             /\ img.ret = TemplatePath
             /\ img.template_calls = 1
       /\ ~img.use_sd =>
             /\ img.ret = TemplatePath
             /\ img.template_calls = 1

\* The service answered without images, and would have sent one on a
\* second request: the call made one request and returned the template.
C30_Witness ==
    /\ img.pc = "done"
    /\ img.use_sd
    /\ img.replies = <<"noimages", "image">>
    /\ img.sd_requests = 1
    /\ img.ret = TemplatePath
    /\ img.ret # generate_sd_word_card(img.word, "image")

\* ----------------------------------------------------------- specifications

ParserIdle ==
    /\ pieces = <<>>
    /\ text = <<>>
    /\ word = <<>>
    /\ parsed_sections = <<>>
    /\ result = Raised("not called")
    /\ stage = "idle"

ExtractIdle ==
    /\ section_arg = <<>>
    /\ extracted = <<>>
    /\ extract_pc = "idle"

PosterIdle ==
    /\ recorder_on = FALSE
    /\ publish_mode = "local"
    /\ clock = 0
    /\ posts = <<>>
    /\ interactions = <<>>
    /\ db_call = NoCall
    /\ returned = <<>>
    /\ run = IdleRun
    /\ other = IdleRun

TriggerIdle == sched = IdleSched

ImageIdle == img = IdleImg

ProcessIdle ==
    /\ rng = [seed |-> "entropy1", pos |-> 0]
    /\ calls = [t \in Callers |-> IdleCall]
    /\ word_files = [p \in Paths |-> MissingFile]
    /\ picked = NoPick

\* The parser applied to every input text.
InitParser ==
    /\ ParserInit
    /\ ProcessIdle
    /\ ExtractIdle
    /\ PosterIdle
    /\ TriggerIdle
    /\ ImageIdle

SpecParser == InitParser /\ [][Parse]_vars

\* A process that renders and picks words, one operation at a time.
InitRender ==
    /\ ParserIdle
    /\ ExtractIdle
    /\ PosterIdle
    /\ TriggerIdle
    /\ ImageIdle
    /\ rng \in [seed : EntropySeeds, pos : {0}]
    /\ calls = [t \in Callers |-> IdleCall]
    /\ word_files = [p \in Paths |->
                        CASE p = "data/CET4.txt" -> FileOf(ThreeWords)
                          [] p = "data/CET6.txt" -> FileOf(OneWord)
                          [] OTHER               -> MissingFile]
    /\ picked = NoPick

RenderNext ==
    \/ \E t \in Callers, d \in Posts : SeqCall(t, d)
    \/ \E t \in Callers : Seed(t)
    \/ \E t \in Callers : ChooseHeader(t)
    \/ \E t \in Callers : ChooseFooter(t)
    \/ \E t \in Callers : Build(t)
    \/ \E hp \in {{}, {<<<<"a">>, "CET-4", PROMPT_VERSION>>}} : Pick("CET-4", hp)

SpecRender == InitRender /\ [][RenderNext]_vars

\* Worker threads of one process that call render_xhs_word_post with no
\* coordination: their steps interleave.
ThreadsNext ==
    \/ \E t \in Threads, d \in Posts : Call(t, d)
    \/ \E t \in Threads : Seed(t)
    \/ \E t \in Threads : ChooseHeader(t)
    \/ \E t \in Threads : ChooseFooter(t)
    \/ \E t \in Threads : Build(t)

SpecThreads == InitRender /\ [][ThreadsNext]_vars

\* pick_unused_word on every word-list configuration and has_posted.
InitPick ==
    /\ ParserIdle
    /\ ExtractIdle
    /\ PosterIdle
    /\ TriggerIdle
    /\ ImageIdle
    /\ rng \in [seed : EntropySeeds, pos : {0}]
    /\ calls = [t \in Callers |-> IdleCall]
    /\ word_files \in
          {[p \in Paths |->
               CASE p = "data/CET4.txt" -> f4
                 [] p = "data/CET6.txt" -> f6
                 [] OTHER               -> MissingFile] :
             f4 \in {FileOf(ThreeWords), FileOf(BlankLines), MissingFile},
             f6 \in {FileOf(OneWord), MissingFile}}
    /\ picked = NoPick

PickNext == \E level \in Levels, hp \in SUBSET PostedCandidates : Pick(level, hp)

SpecPick == InitPick /\ [][PickNext]_vars

\* extract_tags and extract_meta applied to every section text.
InitExtract ==
    /\ ParserIdle
    /\ ProcessIdle
    /\ PosterIdle
    /\ TriggerIdle
    /\ ImageIdle
    /\ ExtractInit

ExtractNext == ExtractTags \/ ExtractMeta

SpecExtract == InitExtract /\ [][ExtractNext]_vars

\* A poster called with theme "word", with or without a recorder, in either
\* publish mode, and other clients of the same database.
InitPoster ==
    /\ ParserIdle
    /\ ProcessIdle
    /\ ExtractIdle
    /\ TriggerIdle
    /\ ImageIdle
    /\ recorder_on \in BOOLEAN
    /\ publish_mode \in {"local", "auto"}
    /\ clock = 0
    /\ posts = <<>>
    /\ interactions = <<>>
    /\ db_call = NoCall
    /\ returned = <<>>
    /\ run = IdleRun
    /\ other = IdleRun

PosterNext ==
    \/ \E w \in {<<"a">>, <<>>} : StartPost(w, "word", "CET-4")
    \/ DedupCheck
    \/ \E replies \in [1..2 -> Replies] : GenerateWordPost(replies)
    \/ ParseText
    \/ \E ok \in BOOLEAN : GenerateImage(ok)
    \/ FormatContent
    \/ \E success \in BOOLEAN : Publish(success)
    \/ \E dbok \in BOOLEAN : RecordAndReturn(dbok)
    \/ ErrorReturn
    \/ \E w \in {<<"a">>, <<"abandon">>}, v \in {VersionText, <<"v", "0">>} :
          RecordPost(w, "CET-4", v)
    \/ Tick

SpecPoster == InitPoster /\ [][PosterNext]_vars

\* One create_and_publish_post call with theme "word", without a theme or
\* with a theme that names no level, with or without a word, a recorder, a
\* reachable model, a writable disk and database.
CallNext ==
    \/ \E w \in {<<"a">>, <<>>}, theme \in {"word", "none", "daily"} :
          Request(w, theme)
    \/ DedupCheck
    \/ \E replies \in [1..2 -> Replies] : GenerateWordPost(replies)
    \/ ParseText
    \/ \E file \in WordLists, draw \in 0..1,
          replies \in [1..2 -> CallReplies] :
          GenerateWordContent(file, draw, replies)
    \/ \E ok \in BOOLEAN : GenerateImage(ok)
    \/ FormatContent
    \/ \E success \in BOOLEAN : Publish(success)
    \/ \E dbok \in BOOLEAN : RecordAndReturn(dbok)
    \/ ErrorReturn

SpecCall == InitPoster /\ [][CallNext]_vars

\* Two webhook requests for the word a served by two threads of one
\* process: the steps of the two create_and_publish_post calls interleave.
WebhookNext ==
    \/ \E theme \in {"word", "none"} : Request(<<"a">>, theme)
    \/ Switch
    \/ DedupCheck
    \/ \E replies \in [1..2 -> WebhookReplies] : GenerateWordPost(replies)
    \/ ParseText
    \/ \E replies \in [1..2 -> WebhookReplies] :
          GenerateWordContent(MissingFile, 0, replies)
    \/ GenerateImage(TRUE)
    \/ FormatContent
    \/ \E success \in BOOLEAN : Publish(success)
    \/ RecordAndReturn(TRUE)
    \/ ErrorReturn
    \/ Tick

SpecWebhook == InitPoster /\ [][WebhookNext]_vars

\* Clients of one DataRecorder database.
InitRecorder ==
    /\ ParserIdle
    /\ ProcessIdle
    /\ ExtractIdle
    /\ PosterIdle
    /\ TriggerIdle
    /\ ImageIdle

SpecRecorder == InitRecorder /\ [][RecorderNext]_vars

\* A TriggerManager in scheduler mode, for every AUTO_POST_ENABLED.
InitTrigger ==
    /\ ParserIdle
    /\ ProcessIdle
    /\ ExtractIdle
    /\ PosterIdle
    /\ ImageIdle
    /\ TriggerInit

SpecTrigger == InitTrigger /\ [][TriggerNext]_vars

\* generate_word_image on every input and every reply of the service.
InitImage ==
    /\ ParserIdle
    /\ ProcessIdle
    /\ ExtractIdle
    /\ PosterIdle
    /\ TriggerIdle
    /\ ImageInit

SpecImage == InitImage /\ [][GenerateWordImage]_vars

====
